---- MODULE Spec2Model ----
(***************************************************************************)
(* Verification model of the fraiseql-data seed-generation engine:         *)
(* DependencyGraph (dependency.py), AutoDependencyResolver (auto_deps.py), *)
(* MockIntrospector (introspection.py), StagingBackend                     *)
(* (backends/staging.py), CheckConstraintParser (constraint_parser.py)     *)
(* and SeedBuilder (builder.py).                                           *)
(***************************************************************************)
EXTENDS Integers, Sequences, FiniteSets, TLC

\* ------------------------------------------------------------------------
\* Bounded universe
\* ------------------------------------------------------------------------

\* Table names of the schema under test.
Tables == {"A", "B", "C", "D"}

\* Largest number of foreign keys in a schema of the graph universes.
MaxFks == 4

\* Python's None as a row value (every generated value and key is a positive integer).
None == 0

\* No table.
NoTable == "-"

\* Largest row count of a plan entry.
MaxCount == 2

\* Largest row count planned for the table that has a unique column.
MaxUniqueCount == 3

\* Largest number of add calls before execute.
MaxAdds == 2

\* The value source of a column returns one of 1..MaxValue.
MaxValue == 2

\* Largest number of foreign keys in a schema executed by the builder.
MaxExecFks == 2

\* Most instances of a table the resolver's baseline holds.
MaxBaseline == 1

\* Largest small threshold of a CHECK comparison.
MaxThreshold == 2

\* A threshold of a CHECK comparison that is above 1000.
LargeThreshold == 2000

\* All orders in which a Python set holding the elements of S can be iterated.
Perms(S) ==
    {f \in [1..Cardinality(S) -> S] : \A i, j \in 1..Cardinality(S) : f[i] = f[j] => i = j}

\* The elements of a sequence.
Range(s) == {s[i] : i \in 1..Len(s)}

\* Position of the first occurrence of x in s (0 when absent).
IndexOf(s, x) ==
    IF x \in Range(s) THEN CHOOSE i \in 1..Len(s) : s[i] = x /\ \A j \in 1..(i-1) : s[j] # x
    ELSE 0

\* The subsequence of s whose elements satisfy membership in S, order kept.
RECURSIVE FilterSeq(_, _)
FilterSeq(s, S) ==
    IF s = <<>> THEN <<>>
    ELSE IF Head(s) \in S THEN <<Head(s)>> \o FilterSeq(Tail(s), S)
    ELSE FilterSeq(Tail(s), S)

VARIABLES
    schemas,        \* MockIntrospector._schemas: table -> TableInfo
    iterOrder,      \* iteration order of the set DependencyGraph._tables in this process
    graph,          \* the DependencyGraph the introspector built for the sort
    sortPc,         \* position inside topological_sort: "idle", "loop", "returned", "raised"
    in_degree,      \* topological_sort local: table -> remaining dependencies
    queue,          \* topological_sort local: deque of ready tables
    result,         \* topological_sort local: tables emitted so far
    sortError,      \* CircularDependencyError.tables (empty when not raised)
    treePc,         \* build_dependency_tree: "idle" or "returned"
    treeTarget,     \* build_dependency_tree: the argument `table`
    dep_tree,       \* build_dependency_tree: the list returned
    plan,           \* SeedBuilder._plan: the SeedPlan entries in add order
    addCalls,       \* number of add calls made on the builder
    explicit,       \* table -> count of the last add call that named the table itself
    warnings,       \* warnings logged by resolve_dependencies
    seed_common,    \* AutoDependencyResolver.seed_common: table -> instances of the baseline
    pc,             \* position inside SeedBuilder.execute
    error,          \* the exception execute raised (NoError when none)
    todo,           \* execute: the entries of sorted_plan not yet processed
    cur,            \* execute: the plan entry being processed
    generated_data, \* execute: table -> rows the backend returned
    seeds,          \* execute: the Seeds object being filled
    inserted_rows,  \* execute: rows inserted so far for a self-referencing table
    instance,       \* execute: instance number of the single-row plan
    pk_sequences,   \* StagingBackend._pk_sequences
    data,           \* StagingBackend._data
    calls,          \* the insert_rows calls the backend received, in order
    rows,           \* _generate_rows: rows built by this call
    row,            \* _generate_rows: the row being built
    rowInstance,    \* _generate_rows: instance number of the row being built
    last,           \* _generate_rows: last instance number of this call
    colIdx,         \* _generate_rows: index of the column being generated
    value,          \* _generate_rows: the value drawn for the column
    retries,        \* _generate_rows: regeneration attempts for the column
    unique_values,  \* _generate_rows: column -> values already used
    multi_unique_tuples, \* _generate_rows: constraint name -> tuples already used
    checkPc,        \* CheckConstraintParser: "idle", "parsed" or "generated"
    check_clause,   \* the CHECK clause handed to CheckConstraintParser.parse
    rule,           \* the rule parse returned (NoRule for None)
    drawn           \* the value rule.generate() returned


\* ------------------------------------------------------------------------
\* Schema model (models.py)
\* ------------------------------------------------------------------------

\* Name of the foreign-key column of a table that references table d.
FkColumn(d) == "fk_" \o d

\* Name of the primary-key column of table t.
PkColumn(t) == "pk_" \o t

\* ForeignKeyInfo as SchemaIntrospector.get_foreign_keys builds it.
ForeignKeyInfo(t, d) ==
    [column |-> FkColumn(d), referenced_table |-> d,
     referenced_column |-> PkColumn(d), is_self_referencing |-> (d = t)]

\* TableInfo.get_self_referencing_fks (as the positions of these foreign keys)
GetSelfReferencingFks(info) ==
    {k \in 1..Len(info.foreign_keys) : info.foreign_keys[k].is_self_referencing}

\* ColumnInfo; has_default stands for "default_value is not None".
ColumnInfo(name, nullable, pk, unique) ==
    [name |-> name, is_nullable |-> nullable, is_primary_key |-> pk,
     is_unique |-> unique, has_default |-> FALSE]

\* MultiColumnUniqueConstraint
MultiColumnUniqueConstraint(columns, name) == [columns |-> columns, constraint_name |-> name]

\* col.name.startswith("pk_")
StartsWithPk(name) == name \in {PkColumn(t) : t \in Tables}

\* TableInfo.is_trinity
IsTrinity(info) ==
    /\ \E k \in 1..Len(info.columns) :
          StartsWithPk(info.columns[k].name) /\ info.columns[k].is_primary_key
    /\ \E k \in 1..Len(info.columns) : info.columns[k].name = "id"
    /\ \E k \in 1..Len(info.columns) : info.columns[k].name = "identifier"

\* ------------------------------------------------------------------------
\* DependencyGraph (dependency.py)
\* ------------------------------------------------------------------------

\* DependencyGraph.__init__: no table, no edge (a defaultdict: every key reads as empty).
EmptyGraph == [tables |-> {}, graph |-> [t \in Tables |-> {}]]

\* DependencyGraph.add_table
AddTable(g, t) == [g EXCEPT !.tables = @ \cup {t}]

\* DependencyGraph.add_dependency
AddDependency(g, t, d) ==
    [tables |-> g.tables \cup {t, d}, graph |-> [g.graph EXCEPT ![t] = @ \cup {d}]]

\* DependencyGraph.get_dependencies
GetDependencies(g, t) == g.graph[t]

SkipsForeignKeyMutant(fk) == FALSE

\* get_dependency_graph, line 431: a self-reference adds no dependency.
SkipsForeignKey(fk) == fk.is_self_referencing

\* The inner loop of get_dependency_graph over one table's foreign keys.
RECURSIVE AddForeignKeys(_, _, _)
AddForeignKeys(g, t, fks) ==
    IF fks = <<>> THEN g
    ELSE AddForeignKeys(
            IF ~SkipsForeignKey(Head(fks))
            THEN AddDependency(g, t, Head(fks).referenced_table)
            ELSE g,
            t, Tail(fks))

\* MockIntrospector.get_dependency_graph, registering the tables in the order ts.
RECURSIVE BuildGraph(_, _, _)
BuildGraph(g, sch, ts) ==
    IF ts = <<>> THEN g
    ELSE BuildGraph(AddForeignKeys(AddTable(g, Head(ts)), Head(ts), sch[Head(ts)].foreign_keys),
                    sch, Tail(ts))

\* An enumeration of a set of tables as a sequence (dict insertion order of _schemas).
RECURSIVE SetToSeq(_)
SetToSeq(S) ==
    IF S = {} THEN <<>>
    ELSE LET x == CHOOSE y \in S : TRUE IN <<x>> \o SetToSeq(S \ {x})

GetDependencyGraph(sch) == BuildGraph(EmptyGraph, sch, SetToSeq(DOMAIN sch))

\* topological_sort, lines 42-46: in-degree = number of dependencies of each table.
InDegree(g) == [t \in g.tables |-> Cardinality(g.graph[t])]

\* topological_sort, line 49: the tables with no dependency, in set iteration order.
InitialQueue(g, order) == FilterSeq(order, {t \in g.tables : InDegree(g)[t] = 0})

\* topological_sort, lines 58-60: in-degrees after `table` has been emitted.
DecrementedMutant(g, deg, table) ==
    [t \in DOMAIN deg |-> IF table \in g.graph[t] THEN 0 ELSE deg[t]]

Decremented(g, deg, table) ==
    [t \in DOMAIN deg |-> IF table \in g.graph[t] THEN deg[t] - 1 ELSE deg[t]]

\* topological_sort, lines 58-62: the dependents that became ready, in set iteration order.
NewlyReady(g, deg, table, order) ==
    FilterSeq(order, {t \in g.tables : table \in g.graph[t] /\ Decremented(g, deg, table)[t] = 0})

\* topological_sort, lines 52-62: one iteration of the while loop.
KahnStep(g, order, st) ==
    LET table == Head(st.queue) IN
    [in_degree |-> Decremented(g, st.in_degree, table),
     queue     |-> Tail(st.queue) \o NewlyReady(g, st.in_degree, table, order),
     result    |-> Append(st.result, table)]

\* topological_sort, lines 64-69: the value returned or the error raised.
SortOutcomeMutant(g, st) == [ok |-> TRUE, order |-> st.result, tables |-> {}]

SortOutcome(g, st) ==
    IF Len(st.result) # Cardinality(g.tables)
    THEN [ok |-> FALSE, order |-> <<>>, tables |-> g.tables \ Range(st.result)]
    ELSE [ok |-> TRUE, order |-> st.result, tables |-> {}]

RECURSIVE KahnDrain(_, _, _)
KahnDrain(g, order, st) ==
    IF st.queue = <<>> THEN SortOutcome(g, st) ELSE KahnDrain(g, order, KahnStep(g, order, st))

\* DependencyGraph.topological_sort as a whole.
TopologicalSort(g, order) ==
    KahnDrain(g, order, [in_degree |-> InDegree(g), queue |-> InitialQueue(g, order), result |-> <<>>])

\* ------------------------------------------------------------------------
\* AutoDependencyResolver (auto_deps.py)
\* ------------------------------------------------------------------------

\* build_dependency_tree, lines 85-87: post-order append, the target left out.
AppendOnExitMutant(table, current, st) ==
    [st EXCEPT !.dependency_list = Append(@, current)]

AppendOnExit(table, current, st) ==
    IF current # table THEN [st EXCEPT !.dependency_list = Append(@, current)] ELSE st

\* build_dependency_tree, lines 71-73: a table already visited is not entered again.
AlreadyVisited(current, st) == current \in st.visited

RECURSIVE Visit(_, _, _, _), VisitFks(_, _, _, _, _)

\* build_dependency_tree, lines 80-83: the loop over the foreign keys of current.
VisitFks(sch, table, current, fks, st) ==
    IF fks = <<>> THEN st
    ELSE VisitFks(sch, table, current, Tail(fks),
                  IF Head(fks).referenced_table # current
                  THEN Visit(sch, table, Head(fks).referenced_table, st)
                  ELSE st)

\* build_dependency_tree, lines 70-87: the nested function visit.
Visit(sch, table, current, st) ==
    IF AlreadyVisited(current, st) THEN st
    ELSE AppendOnExit(table, current,
            VisitFks(sch, table, current, sch[current].foreign_keys,
                     [st EXCEPT !.visited = @ \cup {current}]))

\* AutoDependencyResolver.build_dependency_tree
BuildDependencyTree(sch, table) ==
    Visit(sch, table, table, [visited |-> {}, dependency_list |-> <<>>]).dependency_list

\* ------------------------------------------------------------------------
\* StagingBackend (backends/staging.py)
\* ------------------------------------------------------------------------

\* A dict with the key k set to v.
Put(f, k, v) == [x \in DOMAIN f \cup {k} |-> IF x = k THEN v ELSE f[x]]

\* dict.get(k, default)
Get(f, k, default) == IF k \in DOMAIN f THEN f[k] ELSE default

\* The empty dict.
EmptyDict == [x \in {} |-> 0]

\* insert_rows, lines 56-59: the names of the columns the backend fills with the sequence.
IdentityColumns(info) ==
    {info.columns[k].name : k \in {j \in 1..Len(info.columns) :
        info.columns[j].is_primary_key /\ StartsWithPk(info.columns[j].name)}}

\* insert_rows, lines 52-61: the k-th input row completed with its generated key.
CompleteRow(info, r, first, k) ==
    [c \in DOMAIN r \cup IdentityColumns(info) |->
        IF c \in IdentityColumns(info) THEN first + (k - 1) ELSE r[c]]

\* insert_rows: the rows returned (a table has at most one identity column).
InsertedRows(info, rs, seqs) ==
    [k \in 1..Len(rs) |-> CompleteRow(info, rs[k], Get(seqs, info.name, 1), k)]

SequencesAfterMutant(info, rs, seqs) ==
    IF rs = <<>> THEN seqs ELSE Put(seqs, info.name, Get(seqs, info.name, 1))

\* insert_rows: _pk_sequences after the call.
SequencesAfter(info, rs, seqs) ==
    IF rs = <<>> THEN seqs
    ELSE Put(seqs, info.name,
             Get(seqs, info.name, 1) + Len(rs) * Cardinality(IdentityColumns(info)))

\* insert_rows(table_info, rows, bulk) as the backend receives it.
InsertCall(info, rs, bulk) == [table |-> info.name, rows |-> Len(rs), bulk |-> bulk]

\* insert_rows: _data after the call.
DataAfter(info, rs, seqs, d) ==
    IF rs = <<>> THEN d
    ELSE Put(d, info.name, Get(d, info.name, <<>>) \o InsertedRows(info, rs, seqs))

\* ------------------------------------------------------------------------
\* SeedBuilder (builder.py)
\* ------------------------------------------------------------------------

\* MAX_UNIQUE_RETRIES
MAX_UNIQUE_RETRIES == 10

\* What FakerGenerator.generate can return for a column.
Values == 1..MaxValue

\* SeedPlan
SeedPlan(table, count, overrides) ==
    [table |-> table, count |-> count, strategy |-> "faker", overrides |-> overrides]

\* An override that is a constant, or a callable of the instance number.
Override(perInstance, v) == [per_instance |-> perInstance, v |-> v]

\* _generate_rows, lines 534-545: the value an override gives for instance n.
OverrideValue(o, n) == IF o.per_instance THEN n ELSE o.v

\* The exception raised: its class and its attributes (column: the column or, for
\* MissingDependencyError, the dependency; columns: those of a multi-column constraint).
Raised(type, table, column, columns, tables) ==
    [type |-> type, table |-> table, column |-> column, columns |-> columns, tables |-> tables]

NoError == Raised("none", NoTable, "-", <<>>, {})

NoPlan == SeedPlan(NoTable, 0, EmptyDict)

PlanTables(pl) == {pl[k].table : k \in 1..Len(pl)}

\* An auto_deps entry for one dependency: an int, or a dict with "count" and "overrides".
IntConfig(count) == [kind |-> "int", has_count |-> TRUE, count |-> count, overrides |-> EmptyDict]

DictConfig(hasCount, count, overrides) ==
    [kind |-> "dict", has_count |-> hasCount, count |-> count, overrides |-> overrides]

ConfigCountMutant(config) == 1

\* resolve_dependencies, lines 241-243 and 257-264: the count an entry asks for.
ConfigCount(config) ==
    IF config.kind = "dict" THEN (IF config.has_count THEN config.count ELSE 1)
    ELSE config.count

\* resolve_dependencies, lines 257-264: the overrides an entry asks for.
ConfigOverrides(config) == IF config.kind = "dict" THEN config.overrides ELSE EmptyDict

\* A warning of the resolver's logger.
Warning(kind, table, count, other) ==
    [kind |-> kind, table |-> table, count |-> count, other |-> other]

\* SeedCommon.get_instance_offsets of the baseline the resolver was built with.
SeedCommonOffsets == seed_common

\* resolve_dependencies, line 238: next(p for p in current_plan if p.table == dep_table)
ExistingPlan(current_plan, t) ==
    current_plan[CHOOSE k \in 1..Len(current_plan) :
        current_plan[k].table = t /\ \A j \in 1..(k - 1) : current_plan[j].table # t]

\* resolve_dependencies, lines 233-252: the dependency is already in the plan.
AlreadyInPlan(dep_table, dep_config, current_plan, out) ==
    IF /\ dep_table \in DOMAIN dep_config
       /\ ExistingPlan(current_plan, dep_table).count # ConfigCount(dep_config[dep_table])
    THEN [out EXCEPT !.warnings = @ \cup
            {Warning("count_conflict", dep_table, ExistingPlan(current_plan, dep_table).count,
                     ConfigCount(dep_config[dep_table]))}]
    ELSE out

AddDependencyPlanMutant(table, dep_table, dep_config, target_count, out) ==
    [plans |-> <<SeedPlan(dep_table, 1, EmptyDict)>> \o out.plans, warnings |-> out.warnings]

\* resolve_dependencies, lines 254-322: a plan entry for a dependency not in the plan.
AddDependencyPlan(table, dep_table, dep_config, target_count, out) ==
    LET dep_count == IF dep_table \in DOMAIN dep_config
                     THEN ConfigCount(dep_config[dep_table]) ELSE 1
        dep_overrides == IF dep_table \in DOMAIN dep_config
                         THEN ConfigOverrides(dep_config[dep_table]) ELSE EmptyDict
        seed_common_count == Get(SeedCommonOffsets, dep_table, 0)
    IN [plans |-> Append(out.plans,
                    IF seed_common_count >= dep_count
                    THEN SeedPlan(dep_table, 0, EmptyDict)
                    ELSE SeedPlan(dep_table, dep_count - seed_common_count, dep_overrides)),
        warnings |-> out.warnings \cup
                    IF target_count # 0 /\ dep_count > target_count
                    THEN {Warning("exceeds_target", dep_table, dep_count, target_count)}
                    ELSE {}]

InPlanTablesMutant(dep_table, current_plan) == FALSE

\* resolve_dependencies, lines 218 and 233: is the dependency already in the plan?
InPlanTables(dep_table, current_plan) == dep_table \in PlanTables(current_plan)

\* resolve_dependencies, lines 232-322: the loop over the dependency tree.
RECURSIVE ResolveLoop(_, _, _, _, _, _)
ResolveLoop(table, dep_tree_, dep_config, current_plan, target_count, out) ==
    IF dep_tree_ = <<>> THEN out
    ELSE ResolveLoop(table, Tail(dep_tree_), dep_config, current_plan, target_count,
            IF InPlanTables(Head(dep_tree_), current_plan)
            THEN AlreadyInPlan(Head(dep_tree_), dep_config, current_plan, out)
            ELSE AddDependencyPlan(table, Head(dep_tree_), dep_config, target_count, out))

\* AutoDependencyResolver.resolve_dependencies: the plan entries to add and the
\* warnings logged (auto_deps=True is the empty dep_config).
ResolveDependencies(sch, table, dep_config, current_plan, target_count) ==
    ResolveLoop(table, BuildDependencyTree(sch, table), dep_config, current_plan,
                target_count, [plans |-> <<>>, warnings |-> {}])

\* execute, line 276: plan_by_table = {p.table: p for p in self._plan} (the last entry wins).
PlanByTableMutant(pl) ==
    [t \in PlanTables(pl) |-> pl[CHOOSE k \in 1..Len(pl) :
        pl[k].table = t /\ \A j \in 1..(k - 1) : pl[j].table # t]]

PlanByTable(pl) ==
    [t \in PlanTables(pl) |-> pl[CHOOSE k \in 1..Len(pl) :
        pl[k].table = t /\ \A j \in (k + 1)..Len(pl) : pl[j].table # t]]

\* validate_plan: the <<table, dependency>> pairs the call can raise with: those of the
\* first planned table that misses a dependency (its dependencies are a set, iterated
\* in any order); none when the plan is complete.
ValidatePlanMutant(g, tables) == {}

ValidatePlan(g, tables) ==
    LET bad == {k \in 1..Len(tables) : g.graph[tables[k]] \ Range(tables) # {}}
    IN IF bad = {} THEN {}
       ELSE LET k == CHOOSE x \in bad : \A y \in bad : x <= y
            IN {<<tables[k], d>> : d \in g.graph[tables[k]] \ Range(tables)}

\* execute, lines 279-281: the plan entries in dependency order.
SortedPlanMutant(order, pl) ==
    LET ts == FilterSeq(order, PlanTables(pl))
    IN [k \in 1..Len(ts) |-> PlanByTable(pl)[ts[Len(ts) + 1 - k]]]

SortedPlan(order, pl) ==
    LET ts == FilterSeq(order, PlanTables(pl))
    IN [k \in 1..Len(ts) |-> PlanByTable(pl)[ts[k]]]

\* _generate_rows, lines 497-503: the identity key and the Trinity columns are skipped.
Skipped(col) ==
    \/ col.is_primary_key /\ StartsWithPk(col.name)
    \/ col.name \in {"id", "identifier"}

NextColMutant(info, k) ==
    IF k > Len(info.columns) THEN k
    ELSE IF info.columns[k].name \in {"id", "identifier"} THEN k + 1 ELSE k

\* The first column at or after position k that is not skipped (Len + 1 when none).
RECURSIVE NextCol(_, _)
NextCol(info, k) ==
    IF k > Len(info.columns) THEN k
    ELSE IF Skipped(info.columns[k]) THEN NextCol(info, k + 1) ELSE k

\* _generate_rows, lines 506-507: the first foreign key on the column (0 when none).
FkOf(info, name) ==
    LET ks == {k \in 1..Len(info.foreign_keys) : info.foreign_keys[k].column = name}
    IN IF ks = {} THEN 0 ELSE CHOOSE k \in ks : \A j \in ks : k <= j

\* row.get(col)
RowGet(r, c) == IF c \in DOMAIN r THEN r[c] ELSE None

\* _generate_rows, line 611: the tuple of a row for a multi-column constraint.
TupleValues(r, constraint) == [k \in 1..Len(constraint.columns) |-> RowGet(r, constraint.columns[k])]

\* TrinityGenerator.generate: the identifiers of instance n (opaque, one per instance).
TrinityData(info, n, r) == [c \in {"id", "identifier"} |-> n]

\* _generate_rows, lines 604-606
WithTrinity(info, n, r) ==
    IF IsTrinity(info)
    THEN [c \in DOMAIN r \cup {"id", "identifier"} |->
            IF c \in {"id", "identifier"} THEN TrinityData(info, n, r)[c] ELSE r[c]]
    ELSE r

\* _generate_rows, lines 509-523: what a nullable self-referencing column can get.
SelfReferenceValuesMutant(current_table_rows, fk) == {None}

SelfReferenceValues(current_table_rows, fk) ==
    IF Len(current_table_rows) = 0 THEN {None}
    ELSE {current_table_rows[k][fk.referenced_column] : k \in 1..Len(current_table_rows)}

\* _generate_rows, lines 609-627: the loop over the multi-column constraints; stops at
\* the first one whose tuple is already tracked.
RECURSIVE ValidateMulti(_, _, _)
ValidateMulti(constraints, r, tuples) ==
    IF constraints = <<>> THEN [ok |-> TRUE, tuples |-> tuples, columns |-> <<>>]
    ELSE LET c == Head(constraints) IN
         IF TupleValues(r, c) \in tuples[c.constraint_name]
         THEN [ok |-> FALSE, tuples |-> tuples, columns |-> c.columns]
         ELSE ValidateMulti(Tail(constraints), r,
                [tuples EXCEPT ![c.constraint_name] = @ \cup {TupleValues(r, c)}])

\* TableInfo has a self-referencing foreign key (execute, line 290).
HasSelfRef(info) == GetSelfReferencingFks(info) # {}

\* execute, line 287: table_info of the plan entry being processed.
Info == schemas[cur.table]

\* _generate_rows, line 496: the column the loop is at.
Col == Info.columns[colIdx]

CallPlanMutant == cur

\* execute, lines 296-301: the plan _generate_rows is called with.
CallPlan == IF HasSelfRef(Info) THEN SeedPlan(cur.table, 1, cur.overrides) ELSE cur

\* execute, lines 304-309 and 316: the argument current_table_rows ([] when not given).
CurrentTableRows == IF HasSelfRef(Info) THEN inserted_rows ELSE <<>>

\* execute, lines 308 and 316: the argument instance_start.
InstanceStart == IF HasSelfRef(Info) THEN instance ELSE 1

\* SeedBuilder.__init__ with the staging backend: empty plan, empty backend.
BuilderInit ==
    /\ plan = <<>>
    /\ addCalls = 0
    /\ explicit = EmptyDict
    /\ warnings = {}
    /\ pc = "plan"
    /\ error = NoError
    /\ todo = <<>>
    /\ cur = NoPlan
    /\ generated_data = EmptyDict
    /\ seeds = EmptyDict
    /\ inserted_rows = <<>>
    /\ instance = 0
    /\ pk_sequences = EmptyDict
    /\ data = EmptyDict
    /\ calls = <<>>
    /\ rows = <<>>
    /\ row = EmptyDict
    /\ rowInstance = 0
    /\ last = 0
    /\ colIdx = 0
    /\ value = None
    /\ retries = 0
    /\ unique_values = EmptyDict
    /\ multi_unique_tuples = EmptyDict

\* ------------------------------------------------------------------------
\* constraint_parser.py: CHECK clauses, the parser and the rules
\* ------------------------------------------------------------------------

\* Numbers are kept in hundredths: 0.01, the smallest step the rules use, is 1.
Scale == 100

\* A CHECK clause is the sequence of its tokens; whitespace between them is what
\* parse normalises away. A word is what \w+ matches, a str a quoted literal.
Word(w) == [t |-> "word", w |-> w, n |-> 0]

Num(n) == [t |-> "num", w |-> "", n |-> n]

Sym(c) == [t |-> "sym", w |-> c, n |-> 0]

Str(x) == [t |-> "str", w |-> x, n |-> 0]

\* \w+ matches a word and a number alike.
WordChars(tok) == tok.t \in {"word", "num"}

IsKw(tok, k) == tok.t = "word" /\ tok.w = k

IsSym(tok, c) == tok.t = "sym" /\ tok.w = c

\* The alternation (>|>=|<|<=) of _parse_range.
IsCmp(tok) == tok.t = "sym" /\ tok.w \in {">", ">=", "<", "<="}

\* re.search returns the leftmost match.
Leftmost(M) == CHOOSE i \in M : \A j \in M : i <= j

\* parse returned None.
NoRule ==
    [kind |-> "none", column |-> "", values |-> <<>>, operator |-> "", value |-> 0,
     min_value |-> 0, max_value |-> 0, has_min |-> FALSE, has_max |-> FALSE,
     min_inclusive |-> FALSE, max_inclusive |-> FALSE]

EnumConstraintRule(column, values) ==
    [NoRule EXCEPT !.kind = "enum", !.column = column, !.values = values]

RangeConstraintRule(column, operator, v) ==
    [NoRule EXCEPT !.kind = "range", !.column = column, !.operator = operator, !.value = v]

BetweenConstraintRule(column, min_value, max_value) ==
    [NoRule EXCEPT !.kind = "between", !.column = column, !.min_value = min_value,
                   !.max_value = max_value, !.has_min = TRUE, !.has_max = TRUE]

\* CombinedRangeRule(column=...): both bounds None.
CombinedRangeRule(column) == [NoRule EXCEPT !.kind = "combined", !.column = column]

\* re.findall(r"'([^']+)'", values_str) over the tokens a..b.
QuotedValues(toks, a, b) ==
    LET strs == SelectSeq(SubSeq(toks, a, b), LAMBDA tok : tok.t = "str")
    IN [k \in 1..Len(strs) |-> strs[k].w]

\* _parse_enum, lines 160-172: column = ANY (ARRAY['a', ...])
ParseEnumAny(toks) ==
    LET Close(i) == {j \in i + 7..Len(toks) - 1 : IsSym(toks[j], "]") /\ IsSym(toks[j + 1], ")")}
        M == {i \in 1..Len(toks) - 8 :
                /\ WordChars(toks[i])
                /\ IsSym(toks[i + 1], "=")
                /\ IsKw(toks[i + 2], "ANY")
                /\ IsSym(toks[i + 3], "(")
                /\ IsKw(toks[i + 4], "ARRAY")
                /\ IsSym(toks[i + 5], "[")
                /\ Close(i) # {}}
    IN IF M = {} THEN NoRule
       ELSE LET i == Leftmost(M)
                values == QuotedValues(toks, i + 6, Leftmost(Close(i)) - 1)
            IN IF values # <<>> THEN EnumConstraintRule(toks[i].w, values) ELSE NoRule

\* _parse_enum, lines 175-195: column IN ('a', ...), up to the first closing parenthesis
ParseEnumIn(toks) ==
    LET Close(i) == {j \in i + 4..Len(toks) : IsSym(toks[j], ")")}
        M == {i \in 1..Len(toks) - 4 :
                /\ WordChars(toks[i])
                /\ IsKw(toks[i + 1], "IN")
                /\ IsSym(toks[i + 2], "(")
                /\ Close(i) # {}}
    IN IF M = {} THEN NoRule
       ELSE LET i == Leftmost(M)
                values == QuotedValues(toks, i + 3, Leftmost(Close(i)) - 1)
            IN IF values # <<>> THEN EnumConstraintRule(toks[i].w, values) ELSE NoRule

\* CheckConstraintParser._parse_enum
ParseEnum(toks) ==
    IF ParseEnumAny(toks) # NoRule THEN ParseEnumAny(toks) ELSE ParseEnumIn(toks)

\* CheckConstraintParser._parse_between
ParseBetween(toks) ==
    LET M == {i \in 1..Len(toks) - 4 :
                /\ WordChars(toks[i])
                /\ IsKw(toks[i + 1], "BETWEEN")
                /\ toks[i + 2].t = "num"
                /\ IsKw(toks[i + 3], "AND")
                /\ toks[i + 4].t = "num"}
    IN IF M = {} THEN NoRule
       ELSE LET i == Leftmost(M)
            IN BetweenConstraintRule(toks[i].w, toks[i + 2].n * Scale, toks[i + 4].n * Scale)

\* CheckConstraintParser._parse_range: the first word followed by a comparison and a
\* number, wherever it stands in the clause
ParseRange(toks) ==
    LET M == {i \in 1..Len(toks) - 2 :
                WordChars(toks[i]) /\ IsCmp(toks[i + 1]) /\ toks[i + 2].t = "num"}
    IN IF M = {} THEN NoRule
       ELSE LET i == Leftmost(M)
            IN RangeConstraintRule(toks[i].w, toks[i + 1].w, toks[i + 2].n * Scale)

\* str.strip("()"): parentheses are removed from both ends.
RECURSIVE StripParens(_)
StripParens(toks) ==
    IF toks = <<>> THEN toks
    ELSE IF IsSym(Head(toks), "(") \/ IsSym(Head(toks), ")") THEN StripParens(Tail(toks))
    ELSE IF IsSym(toks[Len(toks)], "(") \/ IsSym(toks[Len(toks)], ")")
         THEN StripParens(SubSeq(toks, 1, Len(toks) - 1))
    ELSE toks

\* _parse_combined_range, lines 262-268: one comparison sets its bound of the rule.
Combine(combined, r) ==
    IF r.operator \in {">", ">="}
    THEN [combined EXCEPT !.has_min = TRUE, !.min_value = r.value,
                          !.min_inclusive = (r.operator = ">=")]
    ELSE [combined EXCEPT !.has_max = TRUE, !.max_value = r.value,
                          !.max_inclusive = (r.operator = "<=")]

\* CheckConstraintParser._parse_combined_range
ParseCombinedRange(toks) ==
    LET ands == {i \in 2..Len(toks) - 1 : IsKw(toks[i], "AND")}
    IN IF Cardinality(ands) # 1 THEN NoRule
       ELSE LET i == Leftmost(ands)
                rule1 == ParseRange(StripParens(SubSeq(toks, 1, i - 1)))
                rule2 == ParseRange(StripParens(SubSeq(toks, i + 1, Len(toks))))
            IN IF rule1 = NoRule \/ rule2 = NoRule THEN NoRule
               ELSE IF rule1.column # rule2.column THEN NoRule
               ELSE Combine(Combine(CombinedRangeRule(rule1.column), rule1), rule2)

\* CheckConstraintParser.parse
Parse(toks) ==
    IF ParseEnum(toks) # NoRule THEN ParseEnum(toks)
    ELSE IF ParseBetween(toks) # NoRule THEN ParseBetween(toks)
    ELSE IF ParseCombinedRange(toks) # NoRule THEN ParseCombinedRange(toks)
    ELSE ParseRange(toks)

\* random.uniform(a, b): the two ends and the middle stand for the interval.
Uniform(a, b) == {a, (a + b) \div 2, b}

\* max(0, x)
Max0(x) == IF x < 0 THEN 0 ELSE x

\* RangeConstraintRule.generate
RangeGenerate(r) ==
    IF r.operator = ">" THEN {r.value + u : u \in Uniform(1 * Scale, 1000 * Scale)}
    ELSE IF r.operator = ">=" THEN {r.value + u : u \in Uniform(0, 1000 * Scale)}
    ELSE IF r.operator = "<"
    THEN IF r.value > 1000 * Scale
         THEN Uniform(1 * Scale, r.value - 1 * Scale)
         ELSE {Max0(r.value - u) : u \in Uniform(1 * Scale, 100 * Scale)}
    ELSE IF r.value > 1000 * Scale
         THEN Uniform(1 * Scale, r.value)
         ELSE {Max0(r.value - u) : u \in Uniform(0, 100 * Scale)}

\* CombinedRangeRule.generate
CombinedGenerate(r) ==
    IF r.has_min /\ r.has_max
    THEN Uniform(IF r.min_inclusive THEN r.min_value ELSE r.min_value + 1,
                 IF r.max_inclusive THEN r.max_value ELSE r.max_value - 1)
    ELSE IF r.has_min
    THEN {(IF r.min_inclusive THEN r.min_value ELSE r.min_value + 1 * Scale) + u :
             u \in Uniform(0, 1000 * Scale)}
    ELSE IF r.has_max
    THEN {Max0((IF r.max_inclusive THEN r.max_value ELSE r.max_value - 1 * Scale) - u) :
             u \in Uniform(0, 100 * Scale)}
    ELSE Uniform(0, 100 * Scale)

\* A value a rule returns: a str (enumeration) or a float in hundredths.
Text(x) == [drawn |-> TRUE, text |-> x, num |-> 0]

Number(n) == [drawn |-> TRUE, text |-> "", num |-> n]

\* No value drawn yet.
NoValue == [drawn |-> FALSE, text |-> "", num |-> 0]

\* rule.generate() of each rule class: the values it can return.
Generate(r) ==
    IF r.kind = "enum" THEN {Text(x) : x \in Range(r.values)}
    ELSE IF r.kind = "between" THEN {Number(n) : n \in Uniform(r.min_value, r.max_value)}
    ELSE IF r.kind = "combined" THEN {Number(n) : n \in CombinedGenerate(r)}
    ELSE {Number(n) : n \in RangeGenerate(r)}

\* No clause handed to the parser.
NoClause == [shape |-> "none", tokens |-> <<>>, cmps |-> <<>>, literals |-> {}]

CheckIdle ==
    /\ checkPc = "idle"
    /\ check_clause = NoClause
    /\ rule = NoRule
    /\ drawn = NoValue

\* A CHECK clause as the catalog returns it: its tokens, and beside them what the
\* clause means (its shape, the comparisons it makes on its column or the
\* literals it lists), which the properties compare the parser's rule with.
Clause(shape, tokens, cmps, literals) ==
    [shape |-> shape, tokens |-> tokens, cmps |-> cmps, literals |-> literals]

\* One comparison of a column with a number.
Cmp(op, n) == [op |-> op, n |-> n]

\* The thresholds the clauses compare with.
Thresholds == 0..MaxThreshold \cup {LargeThreshold}

Cmps == {Cmp(op, n) : op \in {">", ">=", "<", "<="}, n \in Thresholds}

\* pg_get_constraintdef may wrap a condition in parentheses.
Parens(toks, p) == IF p THEN <<Sym("(")>> \o toks \o <<Sym(")")>> ELSE toks

CmpTokens(col, c) == <<Word(col), Sym(c.op), Num(c.n)>>

\* x > 0, (x <= 2), ...
RangeClause(c, p) == Clause("range", Parens(CmpTokens("x", c), p), <<c>>, {})

\* x BETWEEN 1 AND 2
BetweenClause(lo, hi) ==
    Clause("between", <<Word("x"), Word("BETWEEN"), Num(lo), Word("AND"), Num(hi)>>,
           <<Cmp(">=", lo), Cmp("<=", hi)>>, {})

\* x > 0 AND x < 2, (x >= 1) AND (x <= 2), ...
CombinedClause(c1, c2, p) ==
    Clause("combined",
           Parens(CmpTokens("x", c1), p) \o <<Word("AND")>> \o Parens(CmpTokens("x", c2), p),
           <<c1, c2>>, {})

\* x IN ('a', 'b')
InClause(lits) ==
    Clause("enum",
           <<Word("x"), Word("IN"), Sym("("), Str(lits[1])>>
           \o (IF Len(lits) > 1 THEN <<Sym(","), Str(lits[2])>> ELSE <<>>) \o <<Sym(")")>>,
           <<>>, Range(lits))

\* x = ANY (ARRAY['a'::text, 'b'::text]), the form PostgreSQL stores an IN list in
AnyClause(lits) ==
    Clause("enum",
           <<Word("x"), Sym("="), Word("ANY"), Sym("("), Word("ARRAY"), Sym("["),
             Str(lits[1]), Sym("::"), Word("text")>>
           \o (IF Len(lits) > 1 THEN <<Sym(","), Str(lits[2]), Sym("::"), Word("text")>> ELSE <<>>)
           \o <<Sym("]"), Sym(")")>>,
           <<>>, Range(lits))

\* Clauses of none of the four shapes.
OtherClauses ==
    {\* total = price * quantity
     Clause("other", <<Word("total"), Sym("="), Word("price"), Sym("*"), Word("quantity")>>,
            <<>>, {}),
     \* price * quantity > total
     Clause("other", <<Word("price"), Sym("*"), Word("quantity"), Sym(">"), Word("total")>>,
            <<>>, {}),
     \* price * quantity > 100
     Clause("other", <<Word("price"), Sym("*"), Word("quantity"), Sym(">"), Num(100)>>,
            <<>>, {}),
     \* length(name) > 5
     Clause("other", <<Word("length"), Sym("("), Word("name"), Sym(")"), Sym(">"), Num(5)>>,
            <<>>, {}),
     \* x IN (SELECT id FROM t)
     Clause("other", <<Word("x"), Word("IN"), Sym("("), Word("SELECT"), Word("id"),
                      Word("FROM"), Word("t"), Sym(")")>>, <<>>, {}),
     \* x IN (SELECT id FROM t WHERE kind = 'a')
     Clause("other", <<Word("x"), Word("IN"), Sym("("), Word("SELECT"), Word("id"),
                      Word("FROM"), Word("t"), Word("WHERE"), Word("kind"), Sym("="),
                      Str("a"), Sym(")")>>, <<>>, {}),
     \* x > 0 AND y < 2
     Clause("other", CmpTokens("x", Cmp(">", 0)) \o <<Word("AND")>>
                     \o CmpTokens("y", Cmp("<", 2)), <<>>, {})}

\* v (in hundredths) is on the satisfying side of the comparison c.
Holds(c, v) ==
    IF c.op = ">" THEN v > c.n * Scale
    ELSE IF c.op = ">=" THEN v >= c.n * Scale
    ELSE IF c.op = "<" THEN v < c.n * Scale
    ELSE v <= c.n * Scale

\* Two comparisons that some number satisfies together (one is then found within
\* 0.01 of a threshold).
Satisfiable(c1, c2) ==
    \E n \in Thresholds, d \in {-1, 0, 1} : Holds(c1, n * Scale + d) /\ Holds(c2, n * Scale + d)

\* The CHECK clauses of the tables under test.
Clauses ==
    {RangeClause(c, p) : c \in Cmps, p \in BOOLEAN}
    \cup {BetweenClause(q[1], q[2]) : q \in {r \in Thresholds \X Thresholds : r[1] <= r[2]}}
    \cup {CombinedClause(q[1], q[2], p) :
            q \in {r \in Cmps \X Cmps : Satisfiable(r[1], r[2])}, p \in BOOLEAN}
    \cup {InClause(<<"a">>), InClause(<<"a", "b">>), AnyClause(<<"a">>), AnyClause(<<"a", "b">>)}
    \cup OtherClauses

\* CheckConstraint (models.py)
CheckConstraint(constraint_name, clause) ==
    [constraint_name |-> constraint_name, check_clause |-> clause]

\* _generate_rows, lines 451-464: check_rules, the rule of each column that has
\* one; the rule of a later constraint replaces that of an earlier one.
RECURSIVE CheckRules(_)
CheckRules(constraints) ==
    IF constraints = <<>> THEN EmptyDict
    ELSE LET before == CheckRules(SubSeq(constraints, 1, Len(constraints) - 1))
             r == Parse(constraints[Len(constraints)].check_clause.tokens)
         IN IF r # NoRule THEN Put(before, r.column, r) ELSE before

\* _generate_rows, lines 469-476: the warnings logged for the constraints parse
\* returned None for.
ComplexCheckWarnings(info) ==
    {Warning("complex_check", info.name, k, 0) :
        k \in {j \in 1..Len(info.check_constraints) :
                 Parse(info.check_constraints[j].check_clause.tokens) = NoRule}}

\* ------------------------------------------------------------------------
\* Specification SpecSort: topological_sort run on every schema graph
\* ------------------------------------------------------------------------

\* The foreign keys of a schema as a set of pairs <<table, referenced table>>
\* (a pair <<t, t>> is a self-referencing foreign key).
FkSets == {S \in SUBSET (Tables \X Tables) : Cardinality(S) <= MaxFks}

Targets(S, t) == {e[2] : e \in {x \in S : x[1] = t}}

\* TableInfo.foreign_keys of table t referencing the tables p[1], p[2], ... in this order.
FkSeq(t, p) == [i \in 1..Len(p) |-> ForeignKeyInfo(t, p[i])]

\* TableInfo of table t: an identity primary key pk_t, one column per foreign key
\* (a self-referencing one nullable or not), the columns `extra`, the multi-column
\* UNIQUE constraints `multi`.
MakeTableInfo(t, p, selfNullable, extra, multi) ==
    [name |-> t,
     columns |-> <<ColumnInfo(PkColumn(t), FALSE, TRUE, FALSE)>>
                 \o [k \in 1..Len(p) |->
                        ColumnInfo(FkColumn(p[k]), (p[k] = t) /\ selfNullable, FALSE, FALSE)]
                 \o extra,
     foreign_keys |-> FkSeq(t, p),
     multi_unique_constraints |-> multi,
     check_constraints |-> <<>>]

\* TableInfo of a table that has only its key and its foreign keys.
TableInfo(t, p) == MakeTableInfo(t, p, TRUE, <<>>, <<>>)

\* The builder, its backend and the locals of execute and _generate_rows.
planVars == <<plan, addCalls, explicit, warnings>>

runVars == <<todo, cur, generated_data, seeds, inserted_rows, instance>>

backendVars == <<pk_sequences, data, calls>>

rowVars == <<rows, row, rowInstance, last, colIdx, value, retries, unique_values,
             multi_unique_tuples>>

checkVars == <<checkPc, check_clause, rule, drawn>>

execVars == <<planVars, seed_common, pc, error, runVars, backendVars, rowVars, checkVars>>

treeVars == <<treePc, treeTarget, dep_tree>>

sortVars == <<iterOrder, graph, sortPc, in_degree, queue, result, sortError>>

InitSort ==
    /\ \E S \in FkSets : schemas = [t \in Tables |-> TableInfo(t, SetToSeq(Targets(S, t)))]
    /\ iterOrder \in Perms(Tables)
    /\ graph = EmptyGraph
    /\ sortPc = "idle"
    /\ in_degree = [t \in Tables |-> 0]
    /\ queue = <<>>
    /\ result = <<>>
    /\ sortError = {}
    /\ treePc = "idle"
    /\ treeTarget = NoTable
    /\ dep_tree = <<>>
    /\ seed_common = EmptyDict
    /\ CheckIdle
    /\ BuilderInit

\* MockIntrospector.topological_sort: build the graph, then topological_sort lines 42-50
SortStart ==
    /\ sortPc = "idle"
    /\ sortPc' = "loop"
    /\ LET g == GetDependencyGraph(schemas)
       IN /\ graph' = g
          /\ in_degree' = InDegree(g)
          /\ queue' = InitialQueue(g, iterOrder)
    /\ result' = <<>>
    /\ UNCHANGED <<schemas, iterOrder, sortError, treeVars, execVars>>

\* topological_sort, lines 52-62
SortPop ==
    /\ sortPc = "loop"
    /\ queue # <<>>
    /\ LET st == KahnStep(graph, iterOrder, [in_degree |-> in_degree, queue |-> queue, result |-> result])
       IN /\ in_degree' = st.in_degree
          /\ queue' = st.queue
          /\ result' = st.result
    /\ UNCHANGED <<schemas, iterOrder, graph, sortPc, sortError, treeVars, execVars>>

\* topological_sort, lines 64-69
SortFinish ==
    /\ sortPc = "loop"
    /\ queue = <<>>
    /\ LET out == SortOutcome(graph, [in_degree |-> in_degree, queue |-> queue, result |-> result])
       IN /\ sortPc' = IF out.ok THEN "returned" ELSE "raised"
          /\ sortError' = out.tables
    /\ UNCHANGED <<schemas, iterOrder, graph, in_degree, queue, result, treeVars, execVars>>

NextSort == SortStart \/ SortPop \/ SortFinish

vars == <<schemas, sortVars, treeVars, execVars>>

SpecSort == InitSort /\ [][NextSort]_vars

\* ------------------------------------------------------------------------
\* Specification SpecTree: build_dependency_tree on every schema and target
\* ------------------------------------------------------------------------

\* Every schema with at most MaxFks foreign keys, the foreign keys of a table in any order.
InitTree ==
    /\ \E S \in FkSets :
         \E pa \in Perms(Targets(S, "A")), pb \in Perms(Targets(S, "B")),
            pcc \in Perms(Targets(S, "C")), pd \in Perms(Targets(S, "D")) :
             schemas = [t \in Tables |->
                          TableInfo(t, CASE t = "A" -> pa [] t = "B" -> pb
                                         [] t = "C" -> pcc [] OTHER -> pd)]
    /\ iterOrder = SetToSeq(Tables)
    /\ graph = EmptyGraph
    /\ sortPc = "idle"
    /\ in_degree = [t \in Tables |-> 0]
    /\ queue = <<>>
    /\ result = <<>>
    /\ sortError = {}
    /\ treePc = "idle"
    /\ treeTarget = NoTable
    /\ dep_tree = <<>>
    /\ seed_common = EmptyDict
    /\ CheckIdle
    /\ BuilderInit

\* AutoDependencyResolver.build_dependency_tree(table)
BuildTree(table) ==
    /\ treePc = "idle"
    /\ treePc' = "returned"
    /\ treeTarget' = table
    /\ dep_tree' = BuildDependencyTree(schemas, table)
    /\ UNCHANGED <<schemas, sortVars, execVars>>

NextTree == \E table \in Tables : BuildTree(table)

SpecTree == InitTree /\ [][NextTree]_vars

\* ------------------------------------------------------------------------
\* Specification Spec: SeedBuilder.add and SeedBuilder.execute, staging backend
\* ------------------------------------------------------------------------

ExecTables == {"A", "B", "C"}

ExecFkSets == {S \in SUBSET (ExecTables \X ExecTables) : Cardinality(S) <= MaxExecFks}

\* Schemas of three tables that have only their key and their foreign keys, a
\* self-referencing foreign key nullable or not.
FkSchemas ==
    {[t \in ExecTables |-> MakeTableInfo(t, SetToSeq(Targets(S, t)), n, <<>>, <<>>)] :
        S \in ExecFkSets, n \in BOOLEAN}

\* The columns generated from the value source: a UNIQUE column, or two columns
\* under one multi-column UNIQUE constraint.
ValueColumns ==
    {[columns |-> <<ColumnInfo("u", FALSE, FALSE, TRUE)>>, multi |-> <<>>],
     [columns |-> <<ColumnInfo("m1", FALSE, FALSE, FALSE), ColumnInfo("m2", FALSE, FALSE, FALSE)>>,
      multi |-> <<MultiColumnUniqueConstraint(<<"m1", "m2">>, "uq_m")>>]}

\* Schemas of one table with such columns, with or without a nullable
\* self-referencing foreign key.
ValueSchemas ==
    {[t \in {"A"} |-> MakeTableInfo("A", p, TRUE, e.columns, e.multi)] :
        p \in {<<>>, <<"A">>}, e \in ValueColumns}

\* A schema of one table whose primary key is a natural key: it is not named pk_*.
KeySchemas ==
    {[t \in {"A"} |->
        [name |-> "A",
         columns |-> <<ColumnInfo("code", FALSE, TRUE, FALSE)>>,
         foreign_keys |-> <<>>,
         multi_unique_constraints |-> <<>>,
         check_constraints |-> <<>>]]}

\* Schemas of a table B and a table A that references it and has a column x under
\* the CHECK constraint x BETWEEN 1 AND 2, the column UNIQUE or not.
CheckSchemas ==
    {[t \in {"A", "B"} |->
        IF t = "B" THEN TableInfo("B", <<>>)
        ELSE [MakeTableInfo("A", <<"B">>, TRUE, <<ColumnInfo("x", FALSE, FALSE, u)>>, <<>>)
                EXCEPT !.check_constraints = <<CheckConstraint("ck_x", BetweenClause(1, 2))>>]] :
        u \in BOOLEAN}

\* Schemas of one table whose column x is under one CHECK constraint, for every
\* clause of Clauses.
ClauseSchemas ==
    {[t \in {"A"} |->
        [MakeTableInfo("A", <<>>, TRUE, <<ColumnInfo("x", FALSE, FALSE, FALSE)>>, <<>>)
            EXCEPT !.check_constraints = <<CheckConstraint("ck_x", c)>>]] :
        c \in Clauses}

\* The row counts an add call is given.
Counts == IF DOMAIN schemas = {"A"} THEN 0..MaxUniqueCount ELSE 0..MaxCount

\* The overrides an add call is given for a table: none, or for one generated column
\* (in the schemas of two tables also one that holds a foreign key) a constant, a
\* callable of the instance number or the constant None.
OverridesFor(table) ==
    {EmptyDict} \cup
    {Put(EmptyDict, schemas[table].columns[k].name, o) :
        k \in {j \in 1..Len(schemas[table].columns) :
                 /\ ~Skipped(schemas[table].columns[j])
                 /\ \/ FkOf(schemas[table], schemas[table].columns[j].name) = 0
                    \/ DOMAIN schemas = {"A", "B"}},
        o \in {Override(FALSE, 1), Override(TRUE, 0), Override(FALSE, None)}}

\* The auto_deps argument: True (the empty dep_config), or for one other table a
\* count, or a dict with a count or with overrides only.
AutoDepsConfigs(table) ==
    {EmptyDict} \cup
    {Put(EmptyDict, d, IntConfig(c)) : d \in DOMAIN schemas \ {table}, c \in 1..MaxCount} \cup
    {Put(EmptyDict, d, DictConfig(TRUE, MaxCount, EmptyDict)) : d \in DOMAIN schemas \ {table}} \cup
    {Put(EmptyDict, d, DictConfig(FALSE, 0, Put(EmptyDict, PkColumn(d), Override(FALSE, 1)))) :
        d \in DOMAIN schemas \ {table}}

SortIdle ==
    /\ iterOrder = <<>>
    /\ graph = EmptyGraph
    /\ sortPc = "idle"
    /\ in_degree = [t \in Tables |-> 0]
    /\ queue = <<>>
    /\ result = <<>>
    /\ sortError = {}

TreeIdle ==
    /\ treePc = "idle"
    /\ treeTarget = NoTable
    /\ dep_tree = <<>>

\* The baselines the resolver is built with: none loaded, or one that holds
\* MaxBaseline instances of one table.
SeedCommons ==
    IF DOMAIN schemas = ExecTables
    THEN {EmptyDict, Put(EmptyDict, "B", MaxBaseline)}
    ELSE {EmptyDict}

Init ==
    /\ schemas \in FkSchemas \cup ValueSchemas \cup KeySchemas \cup CheckSchemas
    /\ SortIdle
    /\ TreeIdle
    /\ seed_common \in SeedCommons
    /\ CheckIdle
    /\ BuilderInit

fixedVars == <<schemas, sortVars, treeVars, seed_common, checkVars>>

\* SeedBuilder.add(table, count, overrides=overrides) for a table of the schema
Add(table, count, overrides) ==
    /\ pc = "plan"
    /\ addCalls < MaxAdds
    /\ plan' = Append(plan, SeedPlan(table, count, overrides))
    /\ addCalls' = addCalls + 1
    /\ explicit' = Put(explicit, table, count)
    /\ UNCHANGED <<fixedVars, warnings, pc, error, runVars, backendVars, rowVars>>

\* SeedBuilder.add(table, count, auto_deps=auto_deps): the entries the resolver
\* returns for the current plan are merged into the plan, then the entry of the table.
AddAuto(table, count, auto_deps) ==
    /\ pc = "plan"
    /\ addCalls < MaxAdds
    /\ LET out == ResolveDependencies(schemas, table, auto_deps, plan, count)
       IN /\ plan' = plan \o out.plans \o <<SeedPlan(table, count, EmptyDict)>>
          /\ warnings' = warnings \cup out.warnings
    /\ addCalls' = addCalls + 1
    /\ explicit' = Put(explicit, table, count)
    /\ UNCHANGED <<fixedVars, pc, error, runVars, backendVars, rowVars>>

\* execute, lines 271-272
ExecValidate ==
    /\ pc = "plan"
    /\ LET missing == ValidatePlan(GetDependencyGraph(schemas),
                                   [k \in 1..Len(plan) |-> plan[k].table])
       IN \/ /\ missing = {}
             /\ pc' = "validated"
             /\ error' = error
          \/ \E e \in missing :
                /\ pc' = "failed"
                /\ error' = Raised("MissingDependencyError", e[1], e[2], <<>>, {})
    /\ UNCHANGED <<fixedVars, planVars, runVars, backendVars, rowVars>>

\* execute, lines 275-284: the sort iterates its set of tables in some order
ExecSort ==
    /\ pc = "validated"
    /\ \E order \in Perms(DOMAIN schemas) :
         LET out == TopologicalSort(GetDependencyGraph(schemas), order)
         IN IF out.ok
            THEN /\ todo' = SortedPlan(out.order, plan)
                 /\ pc' = "next"
                 /\ error' = error
            ELSE /\ todo' = todo
                 /\ pc' = "failed"
                 /\ error' = Raised("CircularDependencyError", NoTable, "-", <<>>, out.tables)
    /\ UNCHANGED <<fixedVars, planVars, cur, generated_data, seeds, inserted_rows, instance,
                   backendVars, rowVars>>

BeginTableMutant ==
    /\ pc = "next"
    /\ todo # <<>>
    /\ cur' = PlanByTableMutant(plan)[Head(todo).table]
    /\ inserted_rows' = <<>>
    /\ instance' = 1
    /\ pc' = IF HasSelfRef(schemas[Head(todo).table]) /\ Head(todo).count < 1
             THEN "store" ELSE "call"
    /\ UNCHANGED <<fixedVars, planVars, error, todo, generated_data, seeds, backendVars, rowVars>>

\* execute, lines 286-294: the next plan entry of sorted_plan
BeginTable ==
    /\ pc = "next"
    /\ todo # <<>>
    /\ cur' = Head(todo)
    /\ inserted_rows' = <<>>
    /\ instance' = 1
    /\ pc' = IF HasSelfRef(schemas[Head(todo).table]) /\ Head(todo).count < 1
             THEN "store" ELSE "call"
    /\ UNCHANGED <<fixedVars, planVars, error, todo, generated_data, seeds, backendVars, rowVars>>

\* execute, line 323
Return ==
    /\ pc = "next"
    /\ todo = <<>>
    /\ pc' = "done"
    /\ UNCHANGED <<fixedVars, planVars, error, runVars, backendVars, rowVars>>

\* _generate_rows, lines 491-496: the loops move to the column at or after position k.
GoToColumn(k) ==
    /\ colIdx' = NextCol(Info, k)
    /\ pc' = IF NextCol(Info, k) > Len(Info.columns) THEN "finish_row" ELSE "col"

FailMutant(e) ==
    /\ pc' = "store"
    /\ error' = e

\* _generate_rows raises: the exception leaves execute.
Fail(e) ==
    /\ pc' = "failed"
    /\ error' = e

\* _generate_rows, lines 450-495: the CHECK constraints are parsed and the call starts
\* with new trackers
BeginGenerate ==
    /\ pc = "call"
    /\ unique_values' = EmptyDict
    /\ multi_unique_tuples' =
          [n \in {Info.multi_unique_constraints[k].constraint_name :
                     k \in 1..Len(Info.multi_unique_constraints)} |-> {}]
    /\ rows' = <<>>
    /\ row' = EmptyDict
    /\ rowInstance' = InstanceStart
    /\ last' = InstanceStart + CallPlan.count - 1
    /\ value' = None
    /\ retries' = 0
    /\ IF CallPlan.count = 0
       THEN colIdx' = 0 /\ pc' = "insert"
       ELSE GoToColumn(1)
    /\ warnings' = warnings \cup ComplexCheckWarnings(Info)
    /\ UNCHANGED <<fixedVars, plan, addCalls, explicit, error, runVars, backendVars>>

ValueSourceMutant(info, p, col) ==
    IF FkOf(info, col.name) # 0 THEN "fk"
    ELSE IF col.name \in DOMAIN CheckRules(info.check_constraints) THEN "check"
    ELSE IF col.name \in DOMAIN p.overrides THEN "override"
    ELSE "strategy"

\* _generate_rows, lines 506, 534, 549 and 555: where the value of a column comes
\* from, the first of: foreign key, override, CHECK rule, value source.
ValueSource(info, p, col) ==
    IF FkOf(info, col.name) # 0 THEN "fk"
    ELSE IF col.name \in DOMAIN p.overrides THEN "override"
    ELSE IF col.name \in DOMAIN CheckRules(info.check_constraints) THEN "check"
    ELSE "strategy"

NotNullableMutant(col) == ~col.is_nullable /\ col.is_primary_key

\* _generate_rows, line 511: a self-referencing column that cannot hold NULL.
NotNullable(col) == ~col.is_nullable

\* _generate_rows, lines 506-531: a foreign-key column
GenForeignKey ==
    /\ pc = "col"
    /\ ValueSource(Info, CallPlan, Col) = "fk"
    /\ LET fk == Info.foreign_keys[FkOf(Info, Col.name)] IN
       IF fk.is_self_referencing
       THEN IF NotNullable(Col)
            THEN /\ Fail(Raised("SelfReferenceError", Info.name, Col.name, <<>>, {}))
                 /\ UNCHANGED <<row, colIdx>>
            ELSE /\ \E v \in SelfReferenceValues(CurrentTableRows, fk) :
                        row' = Put(row, Col.name, v)
                 /\ GoToColumn(colIdx + 1)
                 /\ error' = error
       ELSE IF fk.referenced_table \notin DOMAIN generated_data
            THEN /\ Fail(Raised("ForeignKeyResolutionError", fk.referenced_table, fk.column,
                                <<>>, {}))
                 /\ UNCHANGED <<row, colIdx>>
            ELSE IF generated_data[fk.referenced_table] = <<>>
            THEN /\ Fail(Raised("IndexError", NoTable, "-", <<>>, {}))
                 /\ UNCHANGED <<row, colIdx>>
            ELSE /\ \E k \in 1..Len(generated_data[fk.referenced_table]) :
                        row' = Put(row, Col.name,
                                   generated_data[fk.referenced_table][k][fk.referenced_column])
                 /\ GoToColumn(colIdx + 1)
                 /\ error' = error
    /\ UNCHANGED <<fixedVars, planVars, runVars, backendVars, rows, rowInstance, last, value,
                   retries, unique_values, multi_unique_tuples>>

\* _generate_rows, lines 534-546: a column with an override
GenOverride ==
    /\ pc = "col"
    /\ ValueSource(Info, CallPlan, Col) = "override"
    /\ row' = Put(row, Col.name, OverrideValue(CallPlan.overrides[Col.name], rowInstance))
    /\ GoToColumn(colIdx + 1)
    /\ UNCHANGED <<fixedVars, planVars, error, runVars, backendVars, rows, rowInstance, last,
                   value, retries, unique_values, multi_unique_tuples>>

\* _generate_rows, lines 598-601: the null check and the assignment to the row.
StoreValue(v) ==
    IF v = None /\ ~Col.is_nullable /\ ~Col.has_default
    THEN /\ Fail(Raised("ColumnGenerationError", Info.name, Col.name, <<>>, {}))
         /\ UNCHANGED <<row, colIdx>>
    ELSE /\ row' = Put(row, Col.name, v)
         /\ GoToColumn(colIdx + 1)
         /\ error' = error

\* _generate_rows, lines 549-552: a column with a CHECK rule (the rules of the tables
\* executed are numeric; the row holds the number in hundredths)
GenCheck ==
    /\ pc = "col"
    /\ ValueSource(Info, CallPlan, Col) = "check"
    /\ \E v \in Generate(CheckRules(Info.check_constraints)[Col.name]) :
          row' = Put(row, Col.name, v.num)
    /\ GoToColumn(colIdx + 1)
    /\ UNCHANGED <<fixedVars, planVars, error, runVars, backendVars, rows, rowInstance, last,
                   value, retries, unique_values, multi_unique_tuples>>

\* _generate_rows, lines 555-582: a value is drawn from the value source
GenStrategy ==
    /\ pc = "col"
    /\ ValueSource(Info, CallPlan, Col) = "strategy"
    /\ \E v \in Values :
         /\ value' = v
         /\ IF Col.is_unique /\ v # None
            THEN /\ unique_values' = IF Col.name \in DOMAIN unique_values THEN unique_values
                                     ELSE Put(unique_values, Col.name, {})
                 /\ retries' = 0
                 /\ pc' = "retry"
                 /\ UNCHANGED <<row, colIdx, error>>
            ELSE /\ StoreValue(v)
                 /\ UNCHANGED <<unique_values, retries>>
    /\ UNCHANGED <<fixedVars, planVars, runVars, backendVars, rows, rowInstance, last,
                   multi_unique_tuples>>

\* _generate_rows, lines 584-586: one more turn of the retry loop
RetryDraw ==
    /\ pc = "retry"
    /\ value \in unique_values[Col.name]
    /\ retries < MAX_UNIQUE_RETRIES
    /\ value' \in Values
    /\ retries' = retries + 1
    /\ UNCHANGED <<fixedVars, planVars, pc, error, runVars, backendVars, rows, row, rowInstance,
                   last, colIdx, unique_values, multi_unique_tuples>>

\* _generate_rows, lines 584 and 588-601: the retry loop is left
RetryExit ==
    /\ pc = "retry"
    /\ ~(value \in unique_values[Col.name] /\ retries < MAX_UNIQUE_RETRIES)
    /\ IF retries = MAX_UNIQUE_RETRIES
       THEN /\ Fail(Raised("UniqueConstraintError", Info.name, Col.name, <<>>, {}))
            /\ UNCHANGED <<row, colIdx, unique_values>>
       ELSE /\ unique_values' = [unique_values EXCEPT ![Col.name] = @ \cup {value}]
            /\ StoreValue(value)
    /\ UNCHANGED <<fixedVars, planVars, runVars, backendVars, rows, rowInstance, last, value,
                   retries, multi_unique_tuples>>

\* _generate_rows, lines 603-629: the row is complete
FinishRow ==
    /\ pc = "finish_row"
    /\ LET r == WithTrinity(Info, rowInstance, row)
           out == ValidateMulti(Info.multi_unique_constraints, r, multi_unique_tuples)
       IN IF ~out.ok
          THEN /\ Fail(Raised("MultiColumnUniqueConstraintError", Info.name, "-",
                              out.columns, {}))
               /\ row' = r
               /\ UNCHANGED <<rows, rowInstance, colIdx, multi_unique_tuples>>
          ELSE /\ multi_unique_tuples' = out.tuples
               /\ rows' = Append(rows, r)
               /\ error' = error
               /\ IF rowInstance < last
                  THEN /\ rowInstance' = rowInstance + 1
                       /\ row' = EmptyDict
                       /\ GoToColumn(1)
                  ELSE /\ pc' = "insert"
                       /\ row' = r
                       /\ UNCHANGED <<rowInstance, colIdx>>
    /\ UNCHANGED <<fixedVars, planVars, runVars, backendVars, last, value, retries,
                   unique_values>>

\* execute, lines 312-313: the single row of a self-referencing table is inserted
InsertSingle ==
    /\ pc = "insert"
    /\ HasSelfRef(Info)
    /\ inserted_rows' = inserted_rows \o InsertedRows(Info, rows, pk_sequences)
    /\ pk_sequences' = SequencesAfter(Info, rows, pk_sequences)
    /\ data' = DataAfter(Info, rows, pk_sequences, data)
    /\ calls' = Append(calls, InsertCall(Info, rows, FALSE))
    /\ IF instance < cur.count
       THEN instance' = instance + 1 /\ pc' = "call"
       ELSE instance' = instance /\ pc' = "store"
    /\ UNCHANGED <<fixedVars, planVars, error, todo, cur, generated_data, seeds, rowVars>>

\* execute, lines 316-317: the rows of a regular table are inserted as one batch
InsertBatch ==
    /\ pc = "insert"
    /\ ~HasSelfRef(Info)
    /\ inserted_rows' = InsertedRows(Info, rows, pk_sequences)
    /\ pk_sequences' = SequencesAfter(Info, rows, pk_sequences)
    /\ data' = DataAfter(Info, rows, pk_sequences, data)
    /\ calls' = Append(calls, InsertCall(Info, rows, TRUE))
    /\ pc' = "store"
    /\ UNCHANGED <<fixedVars, planVars, error, todo, cur, generated_data, seeds, instance,
                   rowVars>>

StoreTableMutant ==
    /\ pc = "store"
    /\ generated_data' = Put(generated_data, cur.table, inserted_rows)
    /\ seeds' = IF inserted_rows = <<>> THEN seeds ELSE Put(seeds, cur.table, inserted_rows)
    /\ todo' = Tail(todo)
    /\ pc' = "next"
    /\ UNCHANGED <<fixedVars, planVars, error, cur, inserted_rows, instance, backendVars,
                   rowVars>>

\* execute, lines 320-321: the rows become visible to the tables processed later
StoreTable ==
    /\ pc = "store"
    /\ generated_data' = Put(generated_data, cur.table, inserted_rows)
    /\ seeds' = Put(seeds, cur.table, inserted_rows)
    /\ todo' = Tail(todo)
    /\ pc' = "next"
    /\ UNCHANGED <<fixedVars, planVars, error, cur, inserted_rows, instance, backendVars,
                   rowVars>>

Next ==
    \/ \E table \in DOMAIN schemas, count \in Counts :
          \E overrides \in OverridesFor(table) : Add(table, count, overrides)
    \/ \E table \in DOMAIN schemas :
          \E auto_deps \in AutoDepsConfigs(table) : AddAuto(table, 1, auto_deps)
    \/ ExecValidate
    \/ ExecSort
    \/ BeginTable
    \/ Return
    \/ BeginGenerate
    \/ GenForeignKey
    \/ GenOverride
    \/ GenCheck
    \/ GenStrategy
    \/ RetryDraw
    \/ RetryExit
    \/ FinishRow
    \/ InsertSingle
    \/ InsertBatch
    \/ StoreTable

Spec == Init /\ [][Next]_vars

\* ------------------------------------------------------------------------
\* Specification SpecCheck: every CHECK clause is parsed, then a value is drawn
\* from its rule
\* ------------------------------------------------------------------------

InitCheck ==
    /\ schemas \in ClauseSchemas
    /\ SortIdle
    /\ TreeIdle
    /\ seed_common = EmptyDict
    /\ CheckIdle
    /\ BuilderInit

\* _generate_rows, lines 460-476: the CHECK constraint of the table is parsed
ParseConstraint(t) ==
    /\ checkPc = "idle"
    /\ checkPc' = "parsed"
    /\ check_clause' = schemas[t].check_constraints[1].check_clause
    /\ rule' = Parse(schemas[t].check_constraints[1].check_clause.tokens)
    /\ warnings' = warnings \cup ComplexCheckWarnings(schemas[t])
    /\ UNCHANGED <<schemas, sortVars, treeVars, plan, addCalls, explicit, seed_common, pc,
                   error, runVars, backendVars, rowVars, drawn>>

\* _generate_rows, lines 549-551: a value is drawn from the rule of the column
RuleGenerate ==
    /\ checkPc = "parsed"
    /\ rule # NoRule
    /\ checkPc' = "generated"
    /\ drawn' \in Generate(rule)
    /\ UNCHANGED <<schemas, sortVars, treeVars, planVars, seed_common, pc, error, runVars,
                   backendVars, rowVars, check_clause, rule>>

NextCheck == (\E t \in DOMAIN schemas : ParseConstraint(t)) \/ RuleGenerate

SpecCheck == InitCheck /\ [][NextCheck]_vars

\* ------------------------------------------------------------------------
\* Graph-theoretic vocabulary used by the properties (independent of the code)
\* ------------------------------------------------------------------------

\* <<t, d>>: table t has a foreign key to another table d.
SchemaEdges ==
    UNION {{<<t, schemas[t].foreign_keys[k].referenced_table>> :
                k \in {j \in 1..Len(schemas[t].foreign_keys) :
                            schemas[t].foreign_keys[j].referenced_table # t}} : t \in DOMAIN schemas}

\* Tables reachable from t in one or more steps along the edges E.
RECURSIVE ReachIn(_, _, _)
ReachIn(E, S, n) ==
    IF n = 0 THEN S
    ELSE ReachIn(E, S \cup {e[2] : e \in {x \in E : x[1] \in S}}, n - 1)

Reach(E, t) == ReachIn(E, {e[2] : e \in {x \in E : x[1] = t}}, Cardinality(Tables))

OnCycle(E, t) == t \in Reach(E, t)

HasCycle(E) == \E t \in Tables : OnCycle(E, t)

\* Tables that lie on a cycle or depend, directly or not, on a table that does.
Blocked(E) == {t \in Tables : OnCycle(E, t) \/ \E c \in Reach(E, t) : OnCycle(E, c)}

SortEnded == sortPc \in {"returned", "raised"}

\* ------------------------------------------------------------------------
\* Properties of topological_sort (SpecSort)
\* ------------------------------------------------------------------------

\* C1: on an acyclic dependency graph topological_sort returns every registered
\* table exactly once, and for every edge "T depends on D" the table D comes
\* before T, in the whole list and in the list restricted to any set of planned
\* tables that holds both.
C1_SortOrdersDependencies ==
    (SortEnded /\ ~HasCycle(SchemaEdges)) =>
        /\ sortPc = "returned"
        /\ Len(result) = Cardinality(Tables)
        /\ Range(result) = Tables
        /\ \A e \in SchemaEdges : IndexOf(result, e[2]) < IndexOf(result, e[1])
        /\ \A P \in SUBSET Tables : \A e \in SchemaEdges :
              (e[1] \in P /\ e[2] \in P) =>
                  IndexOf(FilterSeq(result, P), e[2]) < IndexOf(FilterSeq(result, P), e[1])

C1_Witness ==
    /\ sortPc = "returned"
    /\ SchemaEdges = {<<"D", "C">>, <<"D", "B">>, <<"C", "A">>, <<"B", "A">>}
    /\ iterOrder = <<"D", "C", "B", "A">>

\* C5: topological_sort raises CircularDependencyError exactly when the
\* non-self-reference edges contain a cycle; the error names the tables that
\* were not emitted, which are the tables on a cycle and the tables depending on
\* them; for A->B->C->A the named set is {A, B, C}.
C5_CycleRaises ==
    SortEnded =>
        /\ (sortPc = "raised") <=> HasCycle(SchemaEdges)
        /\ sortPc = "raised" =>
              /\ sortError = Tables \ Range(result)
              /\ sortError = Blocked(SchemaEdges)
              /\ \A t \in Tables : OnCycle(SchemaEdges, t) => t \in sortError
        /\ SchemaEdges = {<<"A", "B">>, <<"B", "C">>, <<"C", "A">>} =>
              (sortPc = "raised" /\ sortError = {"A", "B", "C"})

C5_Witness ==
    /\ sortPc = "raised"
    /\ SchemaEdges = {<<"A", "B">>, <<"B", "A">>}
    /\ sortError = {"A", "B"}
    /\ Range(result) = {"C", "D"}

C5_WitnessTriangle ==
    /\ sortPc = "raised"
    /\ SchemaEdges = {<<"A", "B">>, <<"B", "C">>, <<"C", "A">>}

\* ------------------------------------------------------------------------
\* Properties of build_dependency_tree (SpecTree)
\* ------------------------------------------------------------------------

\* C9: on an acyclic schema build_dependency_tree(target) returns exactly the
\* tables reachable from the target through non-self-referencing foreign keys,
\* each once, every table after all the tables it depends on, the target absent.
C9_TreeIsOrderedClosure ==
    (treePc = "returned" /\ ~HasCycle(SchemaEdges)) =>
        /\ Range(dep_tree) = Reach(SchemaEdges, treeTarget)
        /\ Len(dep_tree) = Cardinality(Range(dep_tree))
        /\ \A e \in SchemaEdges :
              e[1] \in Range(dep_tree) => IndexOf(dep_tree, e[2]) \in 1..(IndexOf(dep_tree, e[1]) - 1)
        /\ treeTarget \notin Range(dep_tree)

\* The diamond D -> C -> A, D -> B -> A with target D: A once, before B and C.
C9_Witness ==
    /\ treePc = "returned"
    /\ treeTarget = "D"
    /\ SchemaEdges = {<<"D", "C">>, <<"D", "B">>, <<"C", "A">>, <<"B", "A">>}
    /\ Len(dep_tree) = 3
    /\ dep_tree[1] = "A"

\* ------------------------------------------------------------------------
\* Vocabulary of the properties of Spec (independent of the code)
\* ------------------------------------------------------------------------

\* The tables named by some plan entry.
Planned == {plan[k].table : k \in 1..Len(plan)}

\* The plan entry in effect for a planned table: the last one added for it.
Entry(t) == plan[CHOOSE k \in 1..Len(plan) :
                    plan[k].table = t /\ \A j \in 1..Len(plan) : plan[j].table = t => j <= k]

\* <<t, d>>: the planned table t depends on the table d, which is not planned.
MissingPairs == {e \in SchemaEdges : e[1] \in Planned /\ e[2] \notin Planned}

\* The foreign keys of table t to other tables.
ParentFks(t) ==
    {schemas[t].foreign_keys[k] :
        k \in {j \in 1..Len(schemas[t].foreign_keys) :
                  schemas[t].foreign_keys[j].referenced_table # t}}

\* The foreign keys of table t to itself.
SelfFks(t) ==
    {schemas[t].foreign_keys[k] :
        k \in {j \in 1..Len(schemas[t].foreign_keys) :
                  schemas[t].foreign_keys[j].referenced_table = t}}

\* The rows the backend holds for table t.
Persisted(t) == IF t \in DOMAIN data THEN data[t] ELSE <<>>

\* execute is working on the plan entry cur: its rows are being generated or inserted.
Generating == pc \in {"call", "col", "retry", "finish_row", "insert"}

\* Nothing was generated and the backend was not called.
NothingGenerated ==
    /\ data = EmptyDict
    /\ pk_sequences = EmptyDict
    /\ generated_data = EmptyDict
    /\ seeds = EmptyDict
    /\ rows = <<>>
    /\ row = EmptyDict
    /\ cur = NoPlan

\* C2: after a successful execute every value of a foreign-key column to another table
\* is the referenced column's value of a row persisted for the referenced table, and
\* while a table's rows are generated (and ever after) every table it references has
\* all its planned rows persisted and visible.
C2_ForeignKeysReferencePersistedParents ==
    /\ Generating =>
          \A fk \in ParentFks(cur.table) :
              /\ fk.referenced_table \in DOMAIN generated_data
              /\ Len(Persisted(fk.referenced_table)) = Entry(fk.referenced_table).count
    /\ \A d \in DOMAIN generated_data :
          /\ generated_data[d] = Persisted(d)
          /\ Len(Persisted(d)) = Entry(d).count
    /\ pc = "done" =>
          \A t \in DOMAIN schemas : \A k \in 1..Len(Persisted(t)) : \A fk \in ParentFks(t) :
              \E j \in 1..Len(Persisted(fk.referenced_table)) :
                  Persisted(t)[k][fk.column] = Persisted(fk.referenced_table)[j][fk.referenced_column]

\* A run that gave the two rows of A the two different rows of B as parents.
C2_Witness ==
    /\ pc = "done"
    /\ Len(Persisted("A")) = 2
    /\ Len(Persisted("B")) = 2
    /\ "fk_B" \in DOMAIN Persisted("A")[1]
    /\ Persisted("A")[1]["fk_B"] = Persisted("B")[2]["pk_B"]
    /\ Persisted("A")[2]["fk_B"] = Persisted("B")[1]["pk_B"]

\* C3: in a table with a nullable self-referencing foreign key, row 1 is persisted with
\* a null parent, every row i >= 2 has as parent the primary key of one of the rows
\* 1..i-1, which are persisted when row i is generated, and no row is its own parent.
C3_SelfReferenceSequencing ==
    \A t \in DOMAIN schemas : \A fk \in SelfFks(t) :
        /\ \A k \in 1..Len(Persisted(t)) :
              /\ k = 1 => Persisted(t)[k][fk.column] = None
              /\ k >= 2 => \E j \in 1..(k - 1) :
                              Persisted(t)[k][fk.column] = Persisted(t)[j][fk.referenced_column]
              /\ Persisted(t)[k][fk.column] # Persisted(t)[k][fk.referenced_column]
        /\ (pc \in {"col", "retry", "finish_row"} /\ cur.table = t) =>
              /\ Len(Persisted(t)) = rowInstance - 1
              /\ inserted_rows = Persisted(t)

\* Three rows of a self-referencing table: row 2 under row 1, row 3 under row 2.
C3_Witness ==
    /\ pc = "done"
    /\ Len(Persisted("A")) = 3
    /\ "fk_A" \in DOMAIN Persisted("A")[1]
    /\ Persisted("A")[1]["fk_A"] = None
    /\ Persisted("A")[2]["fk_A"] = Persisted("A")[1]["pk_A"]
    /\ Persisted("A")[3]["fk_A"] = Persisted("A")[2]["pk_A"]

\* C4: when a planned table depends on a table that is not planned, execute fails with
\* MissingDependencyError naming such a table and its missing dependency before any row
\* is generated or handed to the backend; when no dependency is missing the error is
\* never raised.
C4_MissingDependencyFirst ==
    /\ (pc # "plan" /\ MissingPairs # {}) =>
          /\ pc = "failed"
          /\ error.type = "MissingDependencyError"
          /\ <<error.table, error.column>> \in MissingPairs
          /\ NothingGenerated
    /\ MissingPairs = {} => error.type # "MissingDependencyError"

\* A plan of A alone, A depending on B and on C: the error names A and C.
C4_Witness ==
    /\ pc = "failed"
    /\ Planned = {"A"}
    /\ MissingPairs = {<<"A", "B">>, <<"A", "C">>}
    /\ error = Raised("MissingDependencyError", "A", "C", <<>>, {})

\* The columns of the planned table t that take their values from the value source
\* and are declared UNIQUE.
SourceUniqueColumns(t) ==
    {schemas[t].columns[k].name :
        k \in {j \in 1..Len(schemas[t].columns) :
                  /\ schemas[t].columns[j].is_unique
                  /\ ~schemas[t].columns[j].is_primary_key
                  /\ schemas[t].columns[j].name \notin DOMAIN Entry(t).overrides
                  /\ \A fk \in ParentFks(t) \cup SelfFks(t) :
                        fk.column # schemas[t].columns[j].name}}

\* The rows of the table being processed that were accepted before the row being
\* built: those persisted in this run and those of the batch not inserted yet.
EarlierRows == Persisted(cur.table) \o rows

\* The row being built is a row in progress (not yet accepted or rejected).
BuildingRow == pc \in {"col", "retry", "finish_row"}

\* The values of a multi-column constraint in a row.
TupleOf(r, constraint) ==
    [k \in 1..Len(constraint.columns) |->
        IF constraint.columns[k] \in DOMAIN r THEN r[constraint.columns[k]] ELSE None]

\* The multi-column constraints of table t.
MultiConstraints(t) ==
    {schemas[t].multi_unique_constraints[k] : k \in 1..Len(schemas[t].multi_unique_constraints)}

\* C6: in a successful run the non-null values drawn from the value source for a
\* single-column-unique column are pairwise distinct across all the rows of the table,
\* whether the table is generated as one batch or one row at a time.
C6_UniqueValuesDistinct ==
    pc = "done" =>
        \A t \in Planned : \A c \in SourceUniqueColumns(t) :
            \A j, k \in 1..Len(Persisted(t)) :
                (j # k /\ Persisted(t)[j][c] # None) => Persisted(t)[j][c] # Persisted(t)[k][c]

\* C7: a unique column is regenerated at most 10 times, UniqueConstraintError is raised
\* after exactly 10 regenerations for the column and table at hand, and when the earlier
\* rows of the table already use every value of the source the next row never gets a
\* value for the column.
C7_RetriesBoundedThenError ==
    /\ retries <= MAX_UNIQUE_RETRIES
    /\ error.type = "UniqueConstraintError" =>
          /\ retries = MAX_UNIQUE_RETRIES
          /\ error.table = cur.table
          /\ error.column \in SourceUniqueColumns(cur.table)
    /\ BuildingRow =>
          \A c \in SourceUniqueColumns(cur.table) :
              Values \subseteq {EarlierRows[k][c] : k \in 1..Len(EarlierRows)} =>
                  c \notin DOMAIN row

\* C8: a completed row whose tuple for a multi-column constraint equals the tuple of an
\* earlier row of the table is rejected at once with MultiColumnUniqueConstraintError,
\* so the rows of a table always have pairwise distinct tuples.
C8_DuplicateTupleRejected ==
    /\ [](\A t \in DOMAIN schemas : \A c \in MultiConstraints(t) :
            \A j, k \in 1..Len(Persisted(t)) :
                j # k => TupleOf(Persisted(t)[j], c) # TupleOf(Persisted(t)[k], c))
    /\ [][(/\ pc = "finish_row"
           /\ \E c \in MultiConstraints(cur.table) : \E k \in 1..Len(EarlierRows) :
                 TupleOf(row, c) = TupleOf(EarlierRows[k], c))
          => (/\ pc' = "failed"
              /\ error'.type = "MultiColumnUniqueConstraintError"
              /\ error'.table = cur.table
              /\ rows' = rows
              /\ data' = data)]_vars

\* The count and the overrides an auto_deps argument asks for a table: those it
\* names, or one row without overrides.
RequestedCount(cfg, d) ==
    IF d \notin DOMAIN cfg THEN 1
    ELSE IF cfg[d].kind = "int" \/ cfg[d].has_count THEN cfg[d].count
    ELSE 1

RequestedOverrides(cfg, d) ==
    IF d \in DOMAIN cfg /\ cfg[d].kind = "dict" THEN cfg[d].overrides ELSE EmptyDict

\* The count of the first plan entry of table t.
FirstCount(t) == plan[CHOOSE k \in 1..Len(plan) :
                         plan[k].table = t /\ \A j \in 1..Len(plan) : plan[j].table = t => k <= j].count

\* Every table that has an explicit plan entry is generated with the count of that
\* entry (of the last one when it was added more than once).
ExplicitCountWins ==
    \A t \in DOMAIN generated_data \cap DOMAIN explicit :
        /\ Len(generated_data[t]) = explicit[t]
        /\ Len(Persisted(t)) = explicit[t]

\* An add call with auto_deps never fails, and when it asks for a dependency that is
\* already in the plan a count other than that of the dependency's first plan entry,
\* a warning about that dependency is logged.
ConflictWarns ==
    \A table \in DOMAIN schemas : \A auto_deps \in AutoDepsConfigs(table) :
        AddAuto(table, 1, auto_deps) =>
            /\ pc' = "plan"
            /\ error' = NoError
            /\ \A d \in DOMAIN auto_deps :
                  (/\ d \in Planned
                   /\ d \in Reach(SchemaEdges, table)
                   /\ FirstCount(d) # RequestedCount(auto_deps, d))
                  => \E w \in warnings' :
                        /\ w.kind = "count_conflict"
                        /\ w.table = d
                        /\ w.count = FirstCount(d)
                        /\ w.other = RequestedCount(auto_deps, d)

\* An explicit entry added for a table that so far has only an entry injected by the
\* resolver, with another count, logs a warning about that table.
LateExplicitWarns ==
    \A table \in DOMAIN schemas : \A count \in Counts : \A overrides \in OverridesFor(table) :
        (/\ Add(table, count, overrides)
         /\ table \in Planned
         /\ table \notin DOMAIN explicit
         /\ FirstCount(table) # count)
        => \E w \in warnings' : w.table = table

\* C10 (as amended): a table that has an explicit plan entry is always generated with
\* the explicit entry's count, whatever count an auto-dependency configuration requests
\* for it and whichever entry was added first; a requested count that differs from the
\* count the table already has in the plan produces a warning, never an error.
C10_ExplicitCountWins == []ExplicitCountWins /\ [][ConflictWarns]_vars

\* B added explicitly with 2 rows, then A with auto_deps asking 1 row of B: the
\* warning is logged and B gets its 2 rows.
C10_Witness ==
    /\ pc = "done"
    /\ plan = <<SeedPlan("B", 2, EmptyDict), SeedPlan("A", 1, EmptyDict)>>
    /\ Warning("count_conflict", "B", 2, 1) \in warnings
    /\ Len(Persisted("B")) = 2
    /\ Len(Persisted("A")) = 1

\* C10 as stated: the explicit count wins in both orders and a differing count
\* produces a warning in both orders.
C10_WarningInBothOrders ==
    []ExplicitCountWins /\ [][ConflictWarns]_vars /\ [][LateExplicitWarns]_vars

\* ------------------------------------------------------------------------
\* The resolver's contract
\* ------------------------------------------------------------------------

\* The entries an add call with auto_deps put into the plan before the entry of its
\* own table: what resolve_dependencies returned.
Emitted == SubSeq(plan', Len(plan) + 1, Len(plan') - 1)

EmittedTables == [k \in 1..Len(Emitted) |-> Emitted[k].table]

\* The tables of build_dependency_tree(table) that the current plan lacks, in the
\* order of the tree.
MissingAncestors(table) ==
    FilterSeq(BuildDependencyTree(schemas, table), DOMAIN schemas \ PlanTables(plan))

ResolverIsAdditive ==
    \A table \in DOMAIN schemas : \A cfg \in AutoDepsConfigs(table) :
        AddAuto(table, 1, cfg) =>
            /\ EmittedTables = MissingAncestors(table)
            /\ \A k \in 1..Len(Emitted) :
                  /\ Emitted[k].table # table
                  /\ Emitted[k].table \notin PlanTables(plan)
                  /\ \A j \in 1..Len(Emitted) : Emitted[j].table = Emitted[k].table => j = k
            /\ SubSeq(plan', 1, Len(plan)) = plan
            /\ pc' = "plan"
            /\ error' = NoError

\* C11: resolve_dependencies returns exactly one new entry for each table of the
\* dependency tree that the current plan lacks, in the order of the tree, none for
\* the target table or for a table already planned; it raises nothing and leaves
\* the entries of the current plan as they were.
C11_ResolverIsAdditive == [][ResolverIsAdditive]_vars

\* An add call with auto_deps found one of its two ancestors already planned and
\* emitted an entry for the other one only.
C11_Witness ==
    /\ pc = "plan"
    /\ addCalls = 2
    /\ Len(plan) = 3
    /\ Len(BuildDependencyTree(schemas, plan[3].table)) = 2
    /\ plan[1].table \in Range(BuildDependencyTree(schemas, plan[3].table))
    /\ <<plan[2].table>> =
          FilterSeq(BuildDependencyTree(schemas, plan[3].table), DOMAIN schemas \ {plan[1].table})

\* The instances of a table the baseline of the resolver holds.
Baseline(d) == IF d \in DOMAIN seed_common THEN seed_common[d] ELSE 0

\* The ancestors only the resolver planned: no add call named them.
InjectedOnly == Planned \ DOMAIN explicit

EmittedAsRequested ==
    \A table \in DOMAIN schemas : \A cfg \in AutoDepsConfigs(table) :
        AddAuto(table, 1, cfg) =>
            \A k \in 1..Len(Emitted) :
                /\ Emitted[k].count = RequestedCount(cfg, Emitted[k].table)
                /\ Emitted[k].overrides = RequestedOverrides(cfg, Emitted[k].table)

EmittedLessBaseline ==
    \A table \in DOMAIN schemas : \A cfg \in AutoDepsConfigs(table) :
        AddAuto(table, 1, cfg) =>
            \A k \in 1..Len(Emitted) :
                LET d == Emitted[k].table
                IN IF Baseline(d) >= RequestedCount(cfg, d)
                   THEN Emitted[k].count = 0 /\ Emitted[k].overrides = EmptyDict
                   ELSE /\ Emitted[k].count = RequestedCount(cfg, d) - Baseline(d)
                        /\ Emitted[k].overrides = RequestedOverrides(cfg, d)

InjectedHaveEntryCount ==
    pc = "done" =>
        \A d \in InjectedOnly :
            /\ d \in DOMAIN seeds
            /\ Len(seeds[d]) = Entry(d).count
            /\ Len(Persisted(d)) = Entry(d).count

\* C12 as stated: every entry emitted for a missing ancestor has the count the
\* auto-dependency configuration names for the table (an int or the "count" of a
\* dict), or 1, and the configured overrides. Violated when the resolver has a
\* baseline that holds instances of the ancestor.
C12_EmittedAsRequested == [][EmittedAsRequested]_vars

\* C12 amended: every entry emitted for a missing ancestor has the configured count
\* (or 1) less the instances of the table the baseline holds, with the configured
\* overrides, and count 0 without overrides when the baseline covers the request;
\* after an execute that returns, an ancestor no add call named has exactly as many
\* rows as its entry's count.
C12_EmittedLessBaseline == []InjectedHaveEntryCount /\ [][EmittedLessBaseline]_vars

\* An execute returned after the resolver emitted, for a table of which the baseline
\* holds instances, an entry with the rest of a larger configured count.
C12_Witness ==
    /\ pc = "done"
    /\ Baseline("B") = MaxBaseline
    /\ "B" \in InjectedOnly
    /\ Entry("B").count = MaxCount - MaxBaseline
    /\ Entry("B").count > 0
    /\ Len(seeds["B"]) = Entry("B").count

\* The positions of the plan entries of table d.
EntriesOf(pl, d) == {k \in 1..Len(pl) : pl[k].table = d}

\* An ancestor only the resolver planned has one plan entry, and once execute
\* returned it has the rows of that entry, inserted once.
SharedAncestorOnce ==
    \A d \in InjectedOnly :
        /\ Cardinality(EntriesOf(plan, d)) = 1
        /\ d \in DOMAIN generated_data =>
              /\ Len(generated_data[d]) = FirstCount(d)
              /\ Len(Persisted(d)) = FirstCount(d)

\* An add call with auto_deps leaves the entry of an ancestor that is already planned
\* as it is and only logs a warning when it asks for another count; an ancestor it
\* plans itself gets, with the baseline, at least the count it asks for.
FirstAddWins ==
    \A table \in DOMAIN schemas : \A cfg \in AutoDepsConfigs(table) :
        AddAuto(table, 1, cfg) =>
            \A d \in Range(BuildDependencyTree(schemas, table)) :
                IF d \in Planned
                THEN /\ EntriesOf(plan', d) = EntriesOf(plan, d)
                     /\ \A k \in EntriesOf(plan, d) : plan'[k] = plan[k]
                     /\ error' = NoError
                     /\ (d \in DOMAIN cfg /\ RequestedCount(cfg, d) # FirstCount(d))
                          => \E w \in warnings' : w.kind = "count_conflict" /\ w.table = d
                ELSE /\ Cardinality(EntriesOf(plan', d)) = 1
                     /\ \A k \in EntriesOf(plan', d) :
                           plan'[k].count + Baseline(d) >= RequestedCount(cfg, d)

C14_ResultMatchesPlan ==
    pc = "done" =>
        /\ DOMAIN seeds = Planned
        /\ \A t \in Planned : Len(seeds[t]) = Entry(t).count

\* Execute returned for a plan of three entries over two tables, one of them planned
\* with no rows and another with several.
C14_Witness ==
    /\ pc = "done"
    /\ Len(plan) = 3
    /\ Cardinality(Planned) = 2
    /\ \E t \in Planned : Len(seeds[t]) = 0
    /\ \E t \in Planned : Len(seeds[t]) = MaxCount

\* ------------------------------------------------------------------------
\* Failures of generation
\* ------------------------------------------------------------------------

\* The columns of table t that hold a foreign key to t itself and are NOT NULL.
RequiredSelfColumns(t) ==
    {schemas[t].columns[k].name :
        k \in {j \in 1..Len(schemas[t].columns) :
                 /\ ~schemas[t].columns[j].is_nullable
                 /\ \E fk \in SelfFks(t) : fk.column = schemas[t].columns[j].name}}

\* No row of a table with a NOT NULL self-reference is ever completed or handed to
\* the backend, execute does not return when such a table is planned with rows, and
\* a SelfReferenceError is raised on instance 1 and names the table and the column.
RequiredSelfNeverPersisted ==
    /\ \A t \in DOMAIN schemas :
          RequiredSelfColumns(t) # {} =>
              /\ Persisted(t) = <<>>
              /\ t \in DOMAIN seeds => seeds[t] = <<>>
              /\ (pc = "done" /\ t \in Planned) => Entry(t).count = 0
              /\ (pc \in {"finish_row", "insert"}) => cur.table # t
    /\ error.type = "SelfReferenceError" =>
          /\ pc = "failed"
          /\ error.table = cur.table
          /\ error.column \in RequiredSelfColumns(cur.table)
          /\ rowInstance = 1
          /\ rows = <<>>
          /\ inserted_rows = <<>>
          /\ Persisted(cur.table) = <<>>

\* Generation that reaches a NOT NULL self-referencing column fails there with
\* SelfReferenceError.
RequiredSelfRaises ==
    (pc = "col" /\ Col.name \in RequiredSelfColumns(cur.table)) =>
        (pc' = "failed" /\ error'.type = "SelfReferenceError")

\* C15: for a table whose self-referencing foreign-key column is not nullable,
\* generation fails with SelfReferenceError on the first row (instance 1), before any
\* row of that table has been handed to the backend.
C15_RequiredSelfReferenceFails == []RequiredSelfNeverPersisted /\ [][RequiredSelfRaises]_vars

\* Execute failed with SelfReferenceError on a table planned with several rows, after
\* the rows of another table were persisted.
C15_Witness ==
    /\ pc = "failed"
    /\ error.type = "SelfReferenceError"
    /\ cur.count = MaxCount
    /\ data # EmptyDict

\* The foreign key to another table that the column being generated holds (the set
\* is empty when the column holds none).
ParentFkOfCol == {fk \in ParentFks(cur.table) : fk.column = Col.name}

UnresolvableRaises ==
    \A fk \in (IF pc = "col" THEN ParentFkOfCol ELSE {}) :
        Persisted(fk.referenced_table) = <<>> =>
            /\ pc' = "failed"
            /\ error'.type = "ForeignKeyResolutionError"
            /\ error'.column = fk.column
            /\ error'.table = fk.referenced_table

\* C16: whenever a foreign-key column to another table is resolved while the
\* referenced table has no persisted rows in this run (not processed yet, or planned
\* with a count of 0), generation fails with ForeignKeyResolutionError naming the
\* column and the referenced table, and with no other kind of failure.
C16_UnresolvableRaisesForeignKeyResolutionError == [][UnresolvableRaises]_vars

\* The columns of table t that are NOT NULL and have no default.
RequiredColumns(t) ==
    {schemas[t].columns[k].name :
        k \in {j \in 1..Len(schemas[t].columns) :
                 ~schemas[t].columns[j].is_nullable /\ ~schemas[t].columns[j].has_default}}

\* C17: for every column that is NOT NULL and has no default, a final value of null,
\* whichever source produced it (value source, override or CHECK rule), makes
\* generation fail with ColumnGenerationError, so no row handed to the backend holds
\* null in such a column.
C17_NoNullInRequiredColumn ==
    \A t \in DOMAIN data : \A k \in 1..Len(data[t]) :
        \A c \in RequiredColumns(t) \cap DOMAIN data[t][k] : data[t][k][c] # None

\* ------------------------------------------------------------------------
\* The primary key
\* ------------------------------------------------------------------------

\* The primary-key columns of table t, and those of them that are identity keys by
\* their name.
PrimaryKeys(t) ==
    {schemas[t].columns[k].name :
        k \in {j \in 1..Len(schemas[t].columns) : schemas[t].columns[j].is_primary_key}}

IdentityKeys(t) == {c \in PrimaryKeys(t) : StartsWithPk(c)}

\* The rows the row generator has built or is building for the backend.
GeneratedRows == IF Generating THEN Range(rows) \cup {row} ELSE {}

\* C18 as stated: no row the row generator hands to the backend contains a key for
\* the table's primary-key column, whatever the column's name. Violated by a primary
\* key that is not named pk_*.
C18_NoPrimaryKeyGenerated ==
    \A r \in GeneratedRows : DOMAIN r \cap PrimaryKeys(cur.table) = {}

\* C18 amended: no row the row generator hands to the backend contains the table's
\* identity key (the primary-key column named pk_*), which appears only in the rows
\* the backend returns; a primary key under another name (other than id and
\* identifier) is generated like any column and is in the row handed over.
C18_NoIdentityKeyGenerated ==
    /\ \A r \in GeneratedRows : DOMAIN r \cap IdentityKeys(cur.table) = {}
    /\ \A t \in DOMAIN data : \A k \in 1..Len(data[t]) :
          /\ IdentityKeys(t) \subseteq DOMAIN data[t][k]
          /\ \A c \in IdentityKeys(t) : data[t][k][c] # None
    /\ pc = "insert" =>
          \A r \in Range(rows) :
              PrimaryKeys(cur.table) \ (IdentityKeys(cur.table) \cup {"id", "identifier"})
                  \subseteq DOMAIN r

\* The backend returned rows with the identity key it assigned while the next row of
\* the table, without that key, waits to be handed over.
C18_Witness ==
    /\ pc = "insert"
    /\ IdentityKeys(cur.table) # {}
    /\ rows # <<>>
    /\ Persisted(cur.table) # <<>>

\* ------------------------------------------------------------------------
\* Fail-fast
\* ------------------------------------------------------------------------

\* Execute raised an error.
Failed == error # NoError

\* The tables that come after the table being processed in the processing order.
TablesAfter == IF todo = <<>> THEN {} ELSE {Tail(todo)[k].table : k \in 1..Len(todo) - 1}

\* After a failure no result exists, nothing of a later table was generated or
\* persisted, the tables processed before still have all their rows in the backend
\* and so has the failing table the rows inserted for it so far.
FailedKeepsRows ==
    Failed =>
        /\ pc = "failed"
        /\ \A t \in TablesAfter : t \notin DOMAIN generated_data /\ Persisted(t) = <<>>
        /\ \A t \in DOMAIN generated_data :
              /\ Persisted(t) = generated_data[t]
              /\ Len(Persisted(t)) = Entry(t).count
        /\ cur # NoPlan => Persisted(cur.table) = inserted_rows
        /\ cur = NoPlan => NothingGenerated

\* No step follows a failure, and no step takes a row out of the backend.
StopsAndKeeps ==
    /\ ~Failed
    /\ \A t \in DOMAIN data :
          /\ t \in DOMAIN data'
          /\ Len(data[t]) <= Len(data'[t])
          /\ SubSeq(data'[t], 1, Len(data[t])) = data[t]

\* C19: when generation or persistence of a table T fails, the run stops there: no
\* table after T in the processing order is generated or persisted and no result is
\* returned, while the rows persisted before (of the tables before T and of T itself)
\* stay in the backend: there is no rollback.
C19_FailFastNoRollback == []FailedKeepsRows /\ [][StopsAndKeeps]_vars

\* Generation of a table failed after the rows of an earlier table were persisted and
\* while another table was still to be processed.
C19_Witness ==
    /\ Failed
    /\ cur # NoPlan
    /\ \E t \in DOMAIN data : t # cur.table /\ data[t] # <<>>
    /\ TablesAfter # {}

\* ------------------------------------------------------------------------
\* Determinism of topological_sort (SpecSort)
\* ------------------------------------------------------------------------

\* The table names in ascending order, and the position of a name in it.
NameOrder == <<"A", "B", "C", "D">>

NameRank(t) == IndexOf(NameOrder, t)

\* Table t had no unprocessed dependency when the table at position k of the result
\* was emitted.
ReadyAt(t, k) == \A e \in SchemaEdges : e[1] = t => IndexOf(result, e[2]) < k

\* C20: topological_sort is deterministic: tables that have no unprocessed dependency
\* at the same time are emitted in ascending order of their names, so the list
\* returned depends on the tables and edges only.
C20_TiesInNameOrder ==
    sortPc = "returned" =>
        \A j \in 1..Len(result) : \A k \in 1..Len(result) :
            (j < k /\ ReadyAt(result[k], j)) => NameRank(result[j]) < NameRank(result[k])

\* ------------------------------------------------------------------------
\* CHECK constraints (SpecCheck)
\* ------------------------------------------------------------------------

\* The four shapes of clause the parser is meant to recognise.
RecognisedShapes == {"enum", "between", "combined", "range"}

\* The clause of the table was handed to the parser.
Parsed == checkPc \in {"parsed", "generated"}

\* A warning about the CHECK constraint of table t was logged.
WarnedAbout(t) == \E w \in warnings : w.kind = "complex_check" /\ w.table = t

\* C21: the parser returns a rule only for a clause of one of the four recognised
\* shapes (enumeration, BETWEEN, two comparisons of one column joined by AND, one
\* comparison); every other clause (an expression over several columns, a function
\* call, a subquery) gives no rule for any column and a warning.
C21_OnlyRecognisedShapesGiveRule ==
    Parsed =>
        /\ rule # NoRule => check_clause.shape \in RecognisedShapes
        /\ check_clause.shape \notin RecognisedShapes =>
              \A t \in DOMAIN schemas : CheckRules(schemas[t].check_constraints) = EmptyDict
                                         /\ WarnedAbout(t)

\* The value d satisfies the clause: it is one of the literals of an enumeration, or
\* it is on the satisfying side of every comparison of the clause.
Satisfies(clause, d) ==
    IF clause.shape = "enum" THEN d.text \in clause.literals
    ELSE \A k \in 1..Len(clause.cmps) : Holds(clause.cmps[k], d.num)

\* C22: every value drawn from the rule of a clause of a recognised shape satisfies
\* the clause: a listed literal, a value in [min, max], a value on the satisfying
\* side of the threshold for each of >, >=, <, <= and every threshold, a value inside
\* both bounds of two comparisons.
C22_DrawnValueSatisfiesClause ==
    (checkPc = "generated" /\ check_clause.shape \in RecognisedShapes) =>
        Satisfies(check_clause, drawn)

\* ------------------------------------------------------------------------
\* The in-memory backend
\* ------------------------------------------------------------------------

\* The rows of table t in the backend after the step.
PersistedNext(t) == IF t \in DOMAIN data' THEN data'[t] ELSE <<>>

\* The rows the insert_rows call of the step returned: those it added to the table.
Returned == SubSeq(PersistedNext(cur.table), Len(Persisted(cur.table)) + 1,
                   Len(PersistedNext(cur.table)))

\* The keys the backend assigned in a table are 1, 2, 3, ... in insertion order.
KeysCountUp ==
    \A t \in DOMAIN data : \A k \in 1..Len(data[t]) :
        \A c \in IdentityKeys(t) : c \in DOMAIN data[t][k] /\ data[t][k][c] = k

\* An insert_rows call returns one row for each input row, in input order and with
\* the values of the input row, adds these rows after the rows the table holds,
\* leaves its input and the other tables alone.
InsertKeepsOrder ==
    pc = "insert" =>
        /\ Len(Returned) = Len(rows)
        /\ \A k \in 1..Len(rows) :
              /\ DOMAIN Returned[k] = DOMAIN rows[k] \cup IdentityKeys(cur.table)
              /\ \A c \in DOMAIN rows[k] \ IdentityKeys(cur.table) : Returned[k][c] = rows[k][c]
        /\ SubSeq(PersistedNext(cur.table), 1, Len(Persisted(cur.table))) = Persisted(cur.table)
        /\ SubSeq(inserted_rows', Len(inserted_rows') - Len(rows) + 1, Len(inserted_rows')) = Returned
        /\ rows' = rows
        /\ \A t \in DOMAIN schemas \ {cur.table} : PersistedNext(t) = Persisted(t)

\* C23: after any sequence of insert_rows calls on the in-memory backend the primary
\* keys assigned to the rows of a table are 1, 2, 3, ... in insertion order, without
\* gap or repeat across calls, each table has its own counter, the rows returned are
\* in input order and the input rows are not modified.
C23_BackendKeysCountUp == []KeysCountUp /\ [][InsertKeepsOrder]_vars

\* The backend holds several rows of a table that was filled by one call per row and
\* several rows of another table.
C23_Witness ==
    \E t \in DOMAIN schemas, u \in DOMAIN schemas :
        /\ t # u
        /\ HasSelfRef(schemas[t])
        /\ Len(Persisted(t)) = MaxCount
        /\ Len(Persisted(u)) = MaxCount

\* ------------------------------------------------------------------------
\* The retry loop of a unique column
\* ------------------------------------------------------------------------

\* The value at hand in the retry loop collides with a value already used.
Collides == value \in unique_values[Col.name]

\* A value that does not collide, the first draw or any regeneration, is accepted:
\* it is recorded as used and stored in the row.
FreshValueAccepted ==
    (pc = "retry" /\ ~Collides) =>
        /\ pc' # "failed"
        /\ value \in unique_values'[Col.name]
        /\ Col.name \in DOMAIN row' /\ row'[Col.name] = value

\* UniqueConstraintError is raised only when the value of the tenth regeneration
\* still collides.
RaisedOnlyOnTenthCollision ==
    (pc = "retry" /\ pc' = "failed") =>
        /\ error'.type = "UniqueConstraintError"
        /\ retries = MAX_UNIQUE_RETRIES
        /\ Collides

\* C24: when the value drawn for a unique column collides, a value that does not
\* collide and was obtained on any of the regeneration attempts 1 to 10 is accepted
\* and recorded as used; UniqueConstraintError is raised only when the value of the
\* tenth attempt still collides.
C24_FreshRetryAccepted == [][FreshValueAccepted /\ RaisedOnlyOnTenthCollision]_vars

\* The columns of table t under a single-column UNIQUE constraint that the row
\* generator fills, whatever it fills them from.
UniqueColumns(t) ==
    {schemas[t].columns[k].name :
        k \in {j \in 1..Len(schemas[t].columns) :
                  schemas[t].columns[j].is_unique /\ ~Skipped(schemas[t].columns[j])}}

\* C25: uniqueness tracking is applied to every single-column-unique column whatever
\* the source of its value (value source, override or CHECK rule): in a successful
\* run no two rows of a table hold the same non-null value in a unique column.
C25_UniqueWhateverTheSource ==
    pc = "done" =>
        \A t \in Planned : \A c \in UniqueColumns(t) :
            \A j, k \in 1..Len(Persisted(t)) :
                (j # k /\ Persisted(t)[j][c] # None) => Persisted(t)[j][c] # Persisted(t)[k][c]

\* ------------------------------------------------------------------------
\* One insert call per row, or one per table
\* ------------------------------------------------------------------------

\* The insert_rows calls the backend received for table t.
CallsOf(t) == SelectSeq(calls, LAMBDA c : c.table = t)

\* The tables whose plan entry execute has finished.
Finished == DOMAIN generated_data

\* A finished table with a self-referencing foreign key was inserted by one call
\* per planned row, each with one row and bulk=False; any other finished table by
\* one call with all its rows.
CallsAsPlanned ==
    \A t \in Finished :
        IF HasSelfRef(schemas[t])
        THEN /\ Len(CallsOf(t)) = Entry(t).count
             /\ \A k \in 1..Len(CallsOf(t)) : CallsOf(t)[k].rows = 1 /\ ~CallsOf(t)[k].bulk
        ELSE /\ Len(CallsOf(t)) = 1
             /\ CallsOf(t)[1].rows = Entry(t).count

\* The row being built has the instance index of its position: for a table with a
\* self-referencing foreign key the rows before it are persisted, for any other
\* table they are in the batch and none is persisted.
InstanceInOrder ==
    BuildingRow =>
        /\ rowInstance <= cur.count
        /\ IF HasSelfRef(Info)
           THEN rows = <<>> /\ rowInstance = Len(Persisted(cur.table)) + 1
           ELSE rowInstance = Len(rows) + 1 /\ Persisted(cur.table) = <<>>

\* C26: for a table with a self-referencing foreign key and planned count N execute
\* makes exactly N insert calls of one row with bulk=False, the k-th row generated
\* with instance index k after the rows 1..k-1 were persisted; for any other planned
\* table it makes exactly one insert call with all N rows, generated with the
\* instance indices 1..N.
C26_InsertCallsAsPlanned == CallsAsPlanned /\ InstanceInOrder

\* Execute returned after it inserted a table with a self-referencing foreign key
\* row by row and another table as one batch, both of several rows.
C26_Witness ==
    /\ pc = "done"
    /\ \E t \in Finished, u \in Finished :
          /\ HasSelfRef(schemas[t]) /\ Len(CallsOf(t)) = MaxCount
          /\ ~HasSelfRef(schemas[u]) /\ CallsOf(u) = <<[table |-> u, rows |-> MaxCount, bulk |-> TRUE]>>

\* ------------------------------------------------------------------------
\* Where the value of a column comes from
\* ------------------------------------------------------------------------

\* The foreign keys the column being generated holds.
FksOfCol == {fk \in ParentFks(cur.table) \cup SelfFks(cur.table) : fk.column = Col.name}

\* What a foreign key can be resolved to: the referenced column of a persisted row
\* of the referenced table (for a self-reference NULL while the table has no row).
FkValues(fk) ==
    IF fk.referenced_table = cur.table /\ Persisted(cur.table) = <<>> THEN {None}
    ELSE {Persisted(fk.referenced_table)[k][fk.referenced_column] :
             k \in 1..Len(Persisted(fk.referenced_table))}

\* The rules parsed from the CHECK constraints of the table being generated.
RulesOfTable == CheckRules(schemas[cur.table].check_constraints)

\* The step that fills the column takes its value from the first source that
\* applies: the parent rows, the override, the CHECK rule, the value source.
SourceByPrecedence ==
    (pc = "col" /\ ~Col.is_primary_key) =>
        IF FksOfCol # {}
        THEN \/ pc' = "failed"
             \/ Col.name \in DOMAIN row' /\ \E fk \in FksOfCol : row'[Col.name] \in FkValues(fk)
        ELSE IF Col.name \in DOMAIN cur.overrides
        THEN /\ Col.name \in DOMAIN row'
             /\ row'[Col.name] = OverrideValue(cur.overrides[Col.name], rowInstance)
        ELSE IF Col.name \in DOMAIN RulesOfTable
        THEN /\ Col.name \in DOMAIN row'
             /\ Number(row'[Col.name]) \in Generate(RulesOfTable[Col.name])
        ELSE /\ value' \in Values
             /\ \/ pc' \in {"retry", "failed"}
                \/ Col.name \in DOMAIN row' /\ row'[Col.name] = value'

\* C27: for a column that is neither the primary key nor a Trinity identifier the
\* source of the value follows a fixed precedence: a foreign-key column is resolved
\* from the parent rows and an override for it is not consulted; otherwise an
\* override is used; otherwise a parsed CHECK rule; otherwise the value source. An
\* override wins over a CHECK rule on the same column.
C27_ValueSourcePrecedence == [][SourceByPrecedence]_vars

\* Rows were persisted for a table planned with an override for a column that has a
\* CHECK rule, and with the value of the override in that column.
C27_Witness ==
    /\ pc = "done"
    /\ \E t \in Finished :
          \E c \in DOMAIN Entry(t).overrides \cap DOMAIN CheckRules(schemas[t].check_constraints) :
              /\ Len(Persisted(t)) = MaxCount
              /\ \A k \in 1..MaxCount :
                    Persisted(t)[k][c] = OverrideValue(Entry(t).overrides[c], k)

\* ------------------------------------------------------------------------
\* Self-references and the dependency graph (SpecSort)
\* ------------------------------------------------------------------------

\* The schema without its self-referencing foreign keys.
WithoutSelfReferences ==
    [t \in DOMAIN schemas |->
        [schemas[t] EXCEPT !.foreign_keys = SelectSeq(@, LAMBDA fk : fk.referenced_table # t)]]

\* The tables that hold a foreign key to themselves.
SelfReferencing ==
    {t \in DOMAIN schemas :
        \E k \in 1..Len(schemas[t].foreign_keys) : schemas[t].foreign_keys[k].referenced_table = t}

\* What the sort gives for the schema without its self-referencing foreign keys.
PlainSort == TopologicalSort(GetDependencyGraph(WithoutSelfReferences), iterOrder)

PlannedOnCycle == Planned \cap Blocked(SchemaEdges)

\* C29: execute fails with CircularDependencyError only when some planned table
\* lies on a foreign-key cycle or depends, directly or not, on a table that does;
\* a cycle among tables that no planned table depends on does not abort the run.
C29_CycleOnlyForPlannedTables ==
    error.type = "CircularDependencyError" => PlannedOnCycle # {}

\* ------------------------------------------------------------------------
\* A table planned more than once (Spec)
\* ------------------------------------------------------------------------

\* The entries execute has still to process hold each table once, with the entry
\* added last for it; the tables after the one being processed have no rows yet.
LastEntryOnly ==
    \A k \in 1..Len(todo) :
        /\ todo[k] = Entry(todo[k].table)
        /\ \A j \in 1..Len(todo) : todo[j].table = todo[k].table => j = k
        /\ (k > 1 \/ pc = "next") =>
              todo[k].table \notin Finished /\ Persisted(todo[k].table) = <<>>

\* The entry being processed is the last one added for its table.
CurIsLastEntry ==
    (Generating \/ pc = "store") => todo # <<>> /\ cur = Head(todo) /\ cur = Entry(cur.table)

\* A finished table holds as many rows as its last entry asks, and its columns that
\* are not foreign keys hold the values of the overrides of that entry.
RowsOfLastEntry ==
    \A t \in Finished :
        /\ t \in Planned
        /\ Len(Persisted(t)) = Entry(t).count
        /\ \A k \in 1..Len(Persisted(t)) : \A c \in DOMAIN Entry(t).overrides :
              FkOf(schemas[t], c) = 0 =>
                  /\ c \in DOMAIN Persisted(t)[k]
                  /\ Persisted(t)[k][c] = OverrideValue(Entry(t).overrides[c], k)

\* C30: when the plan has more than one entry for a table, execute generates and
\* persists the table once, with the count, the strategy and the overrides of the
\* entry added last; the earlier entries have no effect on the rows.
C30_LastEntryWins ==
    /\ LastEntryOnly
    /\ CurIsLastEntry
    /\ RowsOfLastEntry
    /\ pc = "done" => Finished = Planned

\* A was added with one row and the constant 1 for u, then with two rows and the
\* instance number for u: execute returned with the two rows of the second entry.
C30_Witness ==
    /\ pc = "done"
    /\ EntriesOf(plan, "A") = {1, 2}
    /\ plan[1].count = 1
    /\ plan[1].overrides = Put(EmptyDict, "u", Override(FALSE, 1))
    /\ plan[2].overrides = Put(EmptyDict, "u", Override(TRUE, 0))
    /\ Len(CallsOf("A")) = 1
    /\ Len(Persisted("A")) = 2
    /\ Persisted("A")[2]["u"] = 2

====
